---- MODULE Spec2Model ----
(***************************************************************************)
(* Model of the HTTP request dispatcher of tech-online-backend (package    *)
(* rest): AddHandler / StartReceiver registration, receiverSet.ServeHTTP   *)
(* with processInput, getRequestAccessToken, handleRequest, processOutput  *)
(* and sendResponse.  Paths are sequences of non-empty segments; a request *)
(* body is a sequence of byte tokens; a capability method (Get, Post, Put, *)
(* Delete) of a resource is the environment and returns an arbitrary       *)
(* Result.  Package db (select.go) is modelled with its query strings and  *)
(* a store that parses them (MapperSpec), and the document handlers of     *)
(* package techo with one step per statement and two workers (DocSpec).    *)
(***************************************************************************)
EXTENDS Integers, Sequences, FiniteSets, TLC

VARIABLES
    receiverSets,   \* map prefix -> sequence of receivers
    lastAdd,        \* the last AddHandler call: its arguments, its error and
                    \* the map it was called on
    accessTokens,   \* the access-token store
    now,            \* wall clock
    pc,             \* position of the worker inside ServeHTTP
    httpRequest,    \* the inbound *http.Request
    input,          \* the input struct built by processInput
    token,          \* AccessTokenEntry resolved for the request
    handled,        \* what handleRequest returned and which callbacks it ran
    output,         \* the output struct built by processOutput
    response,       \* what the client receives
    DB,             \* package db: the database handle, nil until connected
    stations,       \* the rows of table "stations", in the order a scan yields
    mapperCall,     \* the last call into package db and what it returned
    families,       \* the rows of table document_families
    documents,      \* the rows of table documents
    workers,        \* the requests the document handlers are serving
    lastPut         \* the last write, if it was a PUT that ran alone

dispatcherVars == <<receiverSets, lastAdd, accessTokens, now, pc, httpRequest, input,
                    token, handled, output, response>>

mapperVars == <<DB, stations, mapperCall>>

docVars == <<families, documents, workers, lastPut>>

vars == <<dispatcherVars, mapperVars, docVars>>

----------------------------------------------------------------------------
(* Bounds *)

MaxLen == 2
MaxTime == 2
MaxTriples == 2
MaxOffset == 2
MaxAdds == 4

----------------------------------------------------------------------------
(* Small helpers *)

IsPrefix(p, s) == Len(p) <= Len(s) /\ SubSeq(s, 1, Len(p)) = p

Range(s) == {s[i] : i \in 1..Len(s)}

Min(a, b) == IF a < b THEN a ELSE b

----------------------------------------------------------------------------
(* Path patterns.  A pattern of the repository captures whole path         *)
(* segments: "^(?P<a>[^/]+)/(?P<b>[^/]+)/$" matches a suffix of exactly    *)
(* its groups' segments, "^(?:(?P<a>[^/]+)/)?$" also the empty suffix, and *)
(* the empty pattern "" is unanchored and matches every suffix.            *)

PatTrackID == [src |-> "^(?P<track_id>[^/]+)/$", compiles |-> TRUE,
               anchored |-> TRUE, optional |-> FALSE, names |-> <<"track_id">>]

PatOptID == [src |-> "^(?:(?P<id>[^/]+)/)?$", compiles |-> TRUE,
             anchored |-> TRUE, optional |-> TRUE, names |-> <<"id">>]

PatAny == [src |-> "", compiles |-> TRUE,
           anchored |-> FALSE, optional |-> FALSE, names |-> <<>>]

\* a pattern with an unnamed group: names holds "" for it, as SubexpNames()
PatUnnamed == [src |-> "^([^/]+)/(?P<id>[^/]+)/$", compiles |-> TRUE,
               anchored |-> TRUE, optional |-> FALSE, names |-> <<"", "id">>]

\* a pattern regexp.Compile rejects (missing closing parenthesis)
PatBad == [src |-> "^(?P<id>[^/]+/$", compiles |-> FALSE,
           anchored |-> TRUE, optional |-> FALSE, names |-> <<"id">>]

\* A path string: its segments, and whether a "/" ends it.  The empty string
\* is [segs |-> <<>>, slash |-> FALSE]; "/" separates and may end segments.
PathString(segs, slash) == [segs |-> segs, slash |-> slash]

\* regexp.MatchString on a path suffix: every group takes one segment and
\* the "/" after it
MatchString(pattern, suffix) ==
    \/ ~pattern.anchored
    \/ /\ Len(suffix.segs) = Len(pattern.names)
       /\ Len(suffix.segs) > 0 => suffix.slash
    \/ pattern.optional /\ Len(suffix.segs) = 0

\* regexp.FindStringSubmatch, groups 1..n: the segment a group captured, or
\* "" for a group that did not take part in the match
FindStringSubmatch(pattern, suffix) ==
    [i \in 1..Len(pattern.names) |->
        IF Len(suffix.segs) = Len(pattern.names) THEN suffix.segs[i] ELSE ""]

----------------------------------------------------------------------------
(* Resource types: the capability methods each allocated type implements.  *)

DocumentFamily == [type |-> "DocumentFamily",
                   caps |-> {"Get", "Post", "Put", "Delete"}]

DocumentFamilies == [type |-> "DocumentFamilies", caps |-> {"Get"}]

TrackStations == [type |-> "TrackStations", caps |-> {"Get"}]

\* The registrations made by the packages' init() functions, in order
InitRegistrations ==
    << [pathPrefix |-> <<"document-families">>, pathPattern |-> PatAny,
        allocator |-> DocumentFamilies],
       [pathPrefix |-> <<"document-family">>, pathPattern |-> PatOptID,
        allocator |-> DocumentFamily],
       [pathPrefix |-> <<"custom", "track-stations">>, pathPattern |-> PatTrackID,
        allocator |-> TrackStations] >>

\* AddHandler: the receiver set of the prefix is created first, then the
\* pattern is compiled; only a compiled pattern is appended to the set
AddHandler(sets, pathPrefix, pathPattern, allocator) ==
    LET withSet == IF pathPrefix \in DOMAIN sets
                   THEN sets
                   ELSE [p \in DOMAIN sets \cup {pathPrefix} |->
                            IF p \in DOMAIN sets THEN sets[p] ELSE <<>>]
    IN IF pathPattern.compiles
       THEN [withSet EXCEPT ![pathPrefix] =
                Append(@, [pathPattern |-> pathPattern, allocator |-> allocator])]
       ELSE withSet

\* no AddHandler call yet
NoAdd == [n |-> 0, pathPrefix |-> <<>>, pathPattern |-> PatAny, err |-> FALSE,
          before |-> <<>>]

RECURSIVE Register(_, _)
Register(sets, regs) ==
    IF regs = <<>> THEN sets
    ELSE Register(AddHandler(sets, Head(regs).pathPrefix, Head(regs).pathPattern,
                             Head(regs).allocator),
                  Tail(regs))

\* Config.SitePrefix, prepended to every prefix by StartReceiver
SitePrefix == <<>>

\* The prefix of the default receiver set ("/"), which has no receivers
DefaultPrefix == <<>>

\* http.ServeMux as set up by StartReceiver: the longest registered prefix
\* of the path serves it, the default set otherwise
MuxPrefixes(sets) == {SitePrefix \o p : p \in DOMAIN sets} \cup {DefaultPrefix}

ServeMux(sets, segs) ==
    CHOOSE p \in MuxPrefixes(sets) :
        /\ IsPrefix(p, segs)
        /\ \A q \in MuxPrefixes(sets) : IsPrefix(q, segs) => Len(q) <= Len(p)

\* the receivers of the set serving a mux prefix
SetReceivers(sets, muxPrefix) ==
    IF \E p \in DOMAIN sets : SitePrefix \o p = muxPrefix
    THEN sets[CHOOSE p \in DOMAIN sets : SitePrefix \o p = muxPrefix]
    ELSE <<>>

----------------------------------------------------------------------------
(* Access-token store.                                                     *)

NoExpiry == 0

AdminToken == [ID |-> "t-admin", Key |-> "admin-key", Role |-> "admin",
               Expiry |-> NoExpiry]

UserToken == [ID |-> "t-user", Key |-> "user-key", Role |-> "participant",
              Expiry |-> 1]

\* makeGuestAccessToken
makeGuestAccessToken == [ID |-> "guest", Key |-> "", Role |-> "guest",
                         Expiry |-> NoExpiry]

NilToken == [ID |-> "nil", Key |-> "", Role |-> "", Expiry |-> NoExpiry]

IsExpired(entry, time) == entry.Expiry # NoExpiry /\ time > entry.Expiry

\* purgeExpiredAccessTokens
purgeExpiredAccessTokens(tokens, time) ==
    {e \in tokens : ~IsExpired(e, time)}

\* loadAccessTokenByKey: the stored entry with that key, or nil
loadAccessTokenByKey(tokens, key) ==
    IF \E e \in tokens : e.Key = key
    THEN CHOOSE e \in tokens : e.Key = key
    ELSE NilToken

----------------------------------------------------------------------------
(* Identity resolution.  A header value is a sequence of tokens, " " being *)
(* white space.                                                            *)

\* strings.Fields
Fields(value) == SelectSeq(value, LAMBDA t : t # " ")

\* strings.ToLower on a scheme word
ToLower(word) ==
    CASE word \in {"Bearer", "BEARER", "bearer"} -> "bearer"
      [] word \in {"Basic", "basic"} -> "basic"
      [] OTHER -> word

NoHeader == [present |-> FALSE, value |-> <<>>]

Header(value) == [present |-> TRUE, value |-> value]

\* variant: no guest token replaces a failed lookup
getRequestAccessToken_NoFallback(req, tokens) ==
    LET authHeaderFields == Fields(req.Authorization.value)
    IN IF /\ req.Authorization.present
          /\ Len(authHeaderFields) = 2
          /\ ToLower(authHeaderFields[1]) = "bearer"
       THEN loadAccessTokenByKey(tokens, authHeaderFields[2])
       ELSE makeGuestAccessToken

getRequestAccessToken(req, tokens) ==
    LET authHeaderFields == Fields(req.Authorization.value)
        loaded ==
            IF /\ req.Authorization.present
               /\ Len(authHeaderFields) = 2
               /\ ToLower(authHeaderFields[1]) = "bearer"
            THEN loadAccessTokenByKey(tokens, authHeaderFields[2])
            ELSE NilToken
    IN IF loaded = NilToken THEN makeGuestAccessToken ELSE loaded

----------------------------------------------------------------------------
(* processInput *)

\* URL.Query(): a map from the keys of the query string to the values each
\* key was given, in order; a value is the sequence of its characters.  A
\* key that is not in the query string is not in the map.
QueryKeys == {"pretty", "limit", "brief"}

QueryOf(pretty, limit, brief) ==
    LET given == [pretty |-> pretty, limit |-> limit, brief |-> brief]
    IN [k \in {key \in QueryKeys : given[key] # <<>>} |-> given[k]]

NoQueryString == QueryOf(<<>>, <<>>, <<>>)

\* query[key]: the values of the key, none for a key that is not in the map
QueryValues(query, key) == IF key \in DOMAIN query THEN query[key] ELSE <<>>

NoInput == [pathPrefix |-> <<>>, pathSuffix |-> PathString(<<>>, FALSE),
            method |-> "", data |-> <<>>, query |-> NoQueryString,
            pretty |-> FALSE]

\* what io.ReadFull delivers into a buffer of n bytes
ReadFull(body, n) == SubSeq(body, 1, Min(Len(body), n))

\* variant: the short read goes unnoticed
ReadFails_Never(read, contentLength) == FALSE

\* the err of io.ReadFull: fewer bytes than the buffer holds is an error
ReadFails(read, contentLength) == Len(read) < contentLength

\* outcome "ok": the input is complete; "error": the body read failed and
\* processInput returned the error; "panic": make([]byte, n) with a negative
\* ContentLength (a body of undeclared length) panicked
processInput(req, pathPrefix) ==
    LET fullPath == IF req.Path.slash THEN req.Path
                    ELSE PathString(req.Path.segs, TRUE)
        suffixSegs == SubSeq(fullPath.segs, Len(pathPrefix) + 1, Len(fullPath.segs))
        base == [pathPrefix |-> pathPrefix,
                 pathSuffix |-> PathString(suffixSegs, suffixSegs # <<>>),
                 method |-> req.Method,
                 data |-> <<>>,
                 query |-> req.Query,
                 pretty |-> Len(QueryValues(req.Query, "pretty")) > 0]
    IN IF req.ContentLength = 0
       THEN [outcome |-> "ok", input |-> base]
       ELSE IF req.ContentLength < 0
       THEN [outcome |-> "panic", input |-> base]
       ELSE LET read == ReadFull(req.Body, req.ContentLength)
            IN [outcome |-> IF ReadFails(read, req.ContentLength)
                            THEN "error" ELSE "ok",
                input |-> [base EXCEPT !.data = read]]

----------------------------------------------------------------------------
(* handleRequest *)

Result(code, msg) == [Code |-> code, Message |-> msg, Error |-> FALSE,
                      Location |-> ""]

ZeroResult == Result(0, "")

\* the nil interface value
NilItem == [type |-> "nil", caps |-> {}, decoded |-> FALSE, populated |-> FALSE]

\* receiver.allocator(): a fresh, empty instance of the registered type
Allocate(allocator) == [type |-> allocator.type, caps |-> allocator.caps,
                        decoded |-> FALSE, populated |-> FALSE]

\* variant: the decoding error is dropped
Unmarshal_NoError(data, item) ==
    [err |-> FALSE, item |-> [item EXCEPT !.decoded = TRUE]]

\* json.Unmarshal(data, &item): a JSON object fills the allocated instance,
\* the JSON null sets the interface to nil, anything else is an error
Unmarshal(data, item) ==
    CASE data = <<"{", "}">> -> [err |-> FALSE, item |-> [item EXCEPT !.decoded = TRUE]]
      [] data = <<"null">> -> [err |-> FALSE, item |-> NilItem]
      [] OTHER -> [err |-> TRUE, item |-> item]

\* variant: POST asserts the Getter interface
Capability_PostChecksGetter(method) ==
    CASE method \in {"GET", "HEAD", "POST"} -> "Get"
      [] method = "PUT" -> "Put"
      [] method = "DELETE" -> "Delete"
      [] OTHER -> "none"

\* the capability each method needs
Capability(method) ==
    CASE method \in {"GET", "HEAD"} -> "Get"
      [] method = "POST" -> "Post"
      [] method = "PUT" -> "Put"
      [] method = "DELETE" -> "Delete"
      [] OTHER -> "none"

\* variant: a group that captured nothing gets no entry
PathArgs_SkipsEmpty(pattern, suffix) ==
    LET argCaptures == FindStringSubmatch(pattern, suffix)
    IN {<<pattern.names[i], argCaptures[i]>> :
            i \in {j \in 1..Len(pattern.names) :
                      pattern.names[j] # "" /\ argCaptures[j] # ""}}

\* request.PathArgs: one entry per named group
PathArgs(pattern, suffix) ==
    LET argCaptures == FindStringSubmatch(pattern, suffix)
    IN {<<pattern.names[i], argCaptures[i]>> :
            i \in {j \in 1..Len(pattern.names) : pattern.names[j] # ""}}

\* request.QueryArgs: the first value of every key
QueryArgs(query) ==
    [key \in DOMAIN query |->
        IF Len(query[key]) > 0 THEN query[key][1] ELSE <<>>]

DecimalDigits == <<"0", "1", "2", "3", "4", "5", "6", "7", "8", "9">>

DigitValue(c) == (CHOOSE i \in 1..Len(DecimalDigits) : DecimalDigits[i] = c) - 1

RECURSIVE DecimalValue(_)
DecimalValue(digits) ==
    IF digits = <<>> THEN 0
    ELSE 10 * DecimalValue(SubSeq(digits, 1, Len(digits) - 1))
            + DigitValue(digits[Len(digits)])

\* strconv.Atoi: an optional sign and then decimal digits, at least one and
\* nothing else (the values here are too short to leave the range of int)
Atoi(value) ==
    LET signed == value # <<>> /\ value[1] \in {"+", "-"}
        digits == IF signed THEN Tail(value) ELSE value
        valid == /\ digits # <<>>
                 /\ \A i \in 1..Len(digits) : digits[i] \in Range(DecimalDigits)
        n == DecimalValue(digits)
    IN IF ~valid THEN [err |-> TRUE, i |-> 0]
       ELSE [err |-> FALSE, i |-> IF value[1] = "-" THEN 0 - n ELSE n]

\* request.ListLimit: the zero value unless "limit" parses as an integer
ListLimit(queryArgs) ==
    IF "limit" \in DOMAIN queryArgs /\ ~Atoi(queryArgs["limit"]).err
    THEN Atoi(queryArgs["limit"]).i
    ELSE 0

\* request.ListBrief
ListBrief(queryArgs) == "brief" \in DOMAIN queryArgs

NoRequest == [Method |-> "", AccessToken |-> NilToken, PathArgs |-> {},
              QueryArgs |-> NoQueryString, ListLimit |-> 0, ListBrief |-> FALSE]

NoReceiver == [pathPattern |-> PatAny, allocator |-> NilItem]

\* receiver is the one handleRequest was given
NoHandled == [result |-> ZeroResult, data |-> NilItem, calls |-> <<>>,
              request |-> NoRequest, receiver |-> NoReceiver]

MethodNotAllowed == Result(405, "method not allowed for endpoint")

NotFound == Result(404, "endpoint not found")

Malformed == Result(400, "malformed data for endpoint")

\* h is what the capability method of the resource does when it is called:
\* the Result it returns and whether it populates the instance
handleRequest(receiver, in, accessToken, h) ==
    IF receiver = NoReceiver
    THEN [NoHandled EXCEPT !.result = NotFound]
    ELSE
    LET request == [Method |-> in.method, AccessToken |-> accessToken,
                    PathArgs |-> PathArgs(receiver.pathPattern, in.pathSuffix),
                    QueryArgs |-> QueryArgs(in.query),
                    ListLimit |-> ListLimit(QueryArgs(in.query)),
                    ListBrief |-> ListBrief(QueryArgs(in.query))]
        item == Allocate(receiver.allocator)
        cap == Capability(in.method)
        decode == in.method \in {"POST", "PUT"} /\ Len(in.data) > 0
        u == IF decode THEN Unmarshal(in.data, item)
             ELSE [err |-> FALSE, item |-> item]
        calls0 == IF decode THEN <<"allocator", "Unmarshal">> ELSE <<"allocator">>
        called == [u.item EXCEPT !.populated = h.populate]
        base == [result |-> ZeroResult, data |-> NilItem, calls |-> calls0,
                 request |-> request, receiver |-> receiver]
    IN IF in.method = "OPTIONS" THEN base
       ELSE IF cap = "none" THEN [base EXCEPT !.result = MethodNotAllowed]
       ELSE IF u.err
       THEN [base EXCEPT !.result = Malformed]
       ELSE IF cap \notin u.item.caps
       THEN [base EXCEPT !.result = MethodNotAllowed]
       ELSE [base EXCEPT !.result = h.result,
                         !.calls = Append(calls0, cap),
                         !.data = IF in.method \in {"GET", "POST"}
                                  THEN called ELSE NilItem]

----------------------------------------------------------------------------
(* processOutput *)

\* output.data: nil, the Result, the handler's resource instance, or the
\* struct built by message()
Payload(kind, result, item, text) ==
    [kind |-> kind, result |-> result, item |-> item, text |-> text]

NilPayload == Payload("nil", ZeroResult, NilItem, "")

ResultPayload(result) == Payload("result", result, NilItem, "")

ItemPayload(item) == Payload("item", ZeroResult, item, "")

\* message(str)
message(str) == Payload("message", ZeroResult, NilItem, str)

NoOutput == [code |-> 0, data |-> NilPayload, location |-> ""]

\* variant: the error does not force the code
ForceError_Skip(result) == result

\* a Result with an error is forced to code 500
ForceError(result) ==
    IF result.Error THEN [result EXCEPT !.Code = 500] ELSE result

\* variant: 2xx always shows the Result
Shape2xx_ResultOnly(code, result, handlerData) ==
    [code |-> code,
     data |-> IF code = 204 THEN NilPayload ELSE ResultPayload(result),
     location |-> IF code = 201 THEN result.Location ELSE ""]

\* case 200..299
Shape2xx(code, result, handlerData) ==
    [code |-> code,
     data |-> IF code = 204 THEN NilPayload
              ELSE IF handlerData = NilItem THEN ResultPayload(result)
              ELSE ItemPayload(handlerData),
     location |-> IF code = 201 THEN result.Location ELSE ""]

\* case 300..399
Shape3xx(code, result, handlerData) ==
    [code |-> code, data |-> ResultPayload(result), location |-> result.Location]

\* variant: 4xx shows the handler's data like 2xx does
Shape4xx_ShowData(code, result, handlerData) ==
    [code |-> code,
     data |-> IF handlerData = NilItem THEN ResultPayload(result)
              ELSE ItemPayload(handlerData),
     location |-> ""]

\* case 400..499
Shape4xx(code, result, handlerData) ==
    [code |-> code, data |-> ResultPayload(result), location |-> ""]

\* variant: the default case keeps the handler's code
ShapeOther_KeepsCode(code, result, handlerData) ==
    [code |-> code, data |-> message("internal server error"), location |-> ""]

\* default case
ShapeOther(code, result, handlerData) ==
    [code |-> 500, data |-> message("internal server error"), location |-> ""]

\* variant: only HEAD is stripped
StripsBody_HeadOnly(method) == method = "HEAD"

\* OPTIONS and HEAD must never return data
StripsBody(method) == method \in {"OPTIONS", "HEAD"}

processOutput(in, handlerResult, handlerData) ==
    LET result == ForceError(handlerResult)
        code == IF result.Code # 0 THEN result.Code ELSE 200
        shaped ==
            IF code >= 100 /\ code <= 199
            THEN [code |-> code, data |-> NilPayload, location |-> ""]
            ELSE IF code >= 200 /\ code <= 299
            THEN Shape2xx(code, result, handlerData)
            ELSE IF code >= 300 /\ code <= 399
            THEN Shape3xx(code, result, handlerData)
            ELSE IF code >= 400 /\ code <= 499
            THEN Shape4xx(code, result, handlerData)
            ELSE ShapeOther(code, result, handlerData)
    IN IF StripsBody(in.method)
       THEN [shaped EXCEPT !.data = NilPayload]
       ELSE shaped

----------------------------------------------------------------------------
(* sendResponse *)

\* json.Marshal / json.MarshalIndent: the bytes of one JSON document
Marshal(data, pretty) ==
    <<[enc |-> IF pretty THEN "indent" ELSE "compact", doc |-> data]>>

Newline == [enc |-> "newline", doc |-> NilPayload]

\* sha256.Sum256 + hex.EncodeToString
Sha256Hex(body) == [set |-> TRUE, digest |-> body]

NoETag == [set |-> FALSE, digest |-> <<>>]

NoHeaders == [ContentType |-> "", AllowOrigin |-> "", AllowMethods |-> "",
              AllowHeaders |-> "", MaxAge |-> "", ETag |-> NoETag,
              Location |-> ""]

NoResponse == [by |-> "none", code |-> 0, headers |-> NoHeaders, body |-> <<>>]

\* The handler returned without writing: net/http answers 200 with the
\* headers the handler set (none) and no body, if the client is still there
ImplicitResponse == [by |-> "net/http", code |-> 200, headers |-> NoHeaders,
                     body |-> <<>>]

\* variant: the body is written whatever the code
WriteBody_Always(code, body) == Append(body, Newline)

\* "Finalize head and add body": the body and a line end, except on 204
WriteBody(code, body) == IF code # 204 THEN Append(body, Newline) ELSE <<>>

\* jsonErr: json.Marshal fails on the data (possible for a handler's
\* resource instance only; Result and message() always encode)
sendResponse(in, out, jsonErr) ==
    LET failed == out.data # NilPayload /\ jsonErr /\ out.data.kind = "item"
        body == IF out.data = NilPayload \/ failed THEN <<>>
                ELSE Marshal(out.data, in.pretty)
        code == IF failed THEN 500 ELSE out.code
    IN [by |-> "sendResponse",
        code |-> code,
        headers |->
            [ContentType |-> IF out.data # NilPayload
                             THEN "application/json; charset=utf-8" ELSE "",
             AllowOrigin |-> "*",
             AllowMethods |-> "*",
             AllowHeaders |-> "*",
             MaxAge |-> "300",
             ETag |-> Sha256Hex(body),
             Location |-> out.location],
        body |-> WriteBody(code, body)]

----------------------------------------------------------------------------
(* Inbound requests and the behaviour of capability methods *)

Methods == {"GET", "HEAD", "POST", "PUT", "DELETE", "OPTIONS", "PATCH"}

Paths == {PathString(<<"nope">>, TRUE),
          PathString(<<"document-family">>, TRUE),
          PathString(<<"document-family", "7">>, FALSE),
          PathString(<<"document-family", "7", "8">>, TRUE),
          PathString(<<"document-families">>, TRUE),
          PathString(<<"custom", "track-stations", "7">>, TRUE),
          PathString(<<"custom", "track-stations">>, TRUE)}

BodySamples == {<<>>, <<"null">>, <<"{">>, <<"{", "}">>, <<"{", "x">>}

\* ContentLength -1 is a body of undeclared length; a declared length of 0
\* comes with no body, and the body reader never yields more than declared
Bodies == {b \in [ContentLength : {-1} \cup 0..MaxLen, Body : BodySamples] :
              /\ b.ContentLength = 0 => b.Body = <<>>
              /\ b.ContentLength > 0 => Len(b.Body) <= b.ContentLength}

AuthHeaders == {NoHeader,
                Header(<<"Basic", " ", "admin-key">>),
                Header(<<"Bearer">>),
                Header(<<"bearer", " ", "unknown-key">>),
                Header(<<"Bearer", " ", "admin-key">>),
                Header(<<"BEARER", " ", " ", "user-key">>)}

\* "" and "?pretty"
Queries == {NoQueryString, QueryOf(<< <<>> >>, <<>>, <<>>)}

\* At is the time the request arrived
NoHTTPRequest == [Method |-> "", Path |-> PathString(<<>>, FALSE),
                  ContentLength |-> 0, Body |-> <<>>,
                  Authorization |-> NoHeader, Query |-> NoQueryString,
                  At |-> 0]

Codes == {-1, 0, 99, 100, 201, 204, 302, 404, 500, 600}

HandlerOutcomes ==
    [result : [Code : Codes, Message : {"handler message"}, Error : BOOLEAN,
               Location : {"", "/new"}],
     populate : BOOLEAN]

\* http.ServeMux redirects a path that is a registered prefix without its
\* final "/" by itself; no handler runs
MuxRedirects(sets, path) ==
    ~path.slash /\ path.segs \in MuxPrefixes(sets) \ {DefaultPrefix}

\* variant: the first receiver of the set is used when none matches
FindReceiver_Fallback(receivers, suffix) ==
    IF \E i \in 1..Len(receivers) : MatchString(receivers[i].pathPattern, suffix)
    THEN receivers[CHOOSE i \in 1..Len(receivers) :
            /\ MatchString(receivers[i].pathPattern, suffix)
            /\ \A j \in 1..(i - 1) : ~MatchString(receivers[j].pathPattern, suffix)]
    ELSE IF receivers # <<>> THEN receivers[1] ELSE NoReceiver

\* variant: the loop does not stop at the first match
FindReceiver_LastMatch(receivers, suffix) ==
    IF \E i \in 1..Len(receivers) : MatchString(receivers[i].pathPattern, suffix)
    THEN receivers[CHOOSE i \in 1..Len(receivers) :
            /\ MatchString(receivers[i].pathPattern, suffix)
            /\ \A j \in (i + 1)..Len(receivers) :
                  ~MatchString(receivers[j].pathPattern, suffix)]
    ELSE NoReceiver

\* The loop over set.receivers: the first receiver whose pattern matches
FindReceiver(receivers, suffix) ==
    IF \E i \in 1..Len(receivers) : MatchString(receivers[i].pathPattern, suffix)
    THEN receivers[CHOOSE i \in 1..Len(receivers) :
            /\ MatchString(receivers[i].pathPattern, suffix)
            /\ \A j \in 1..(i - 1) : ~MatchString(receivers[j].pathPattern, suffix)]
    ELSE NoReceiver

----------------------------------------------------------------------------
(* Package db, select.go: buildSearch, buildWhere, SelectMany, Select, Get *)
(* and Exists.  A query string is the sequence of the pieces fmt.Sprintf   *)
(* joins; the store is the table "stations" the track handler reads.       *)

Sp == " "

\* "$%d"
Dollar(n) == "$" \o ToString(n)

\* an interface{} value: nil, or a value the driver binds
NULL == [null |-> TRUE, v |-> ""]

Val(s) == [null |-> FALSE, v |-> s]

Selector(haystack, operator, needle) ==
    [Haystack |-> haystack, Operator |-> operator, Needle |-> needle]

NoDBError == ""

DBResult(ok, error) == [Ok |-> ok, Error |-> error]

buildSearch(searcher) ==
    IF Len(searcher) = 0
    THEN [err |-> NoDBError, search |-> <<>>]
    ELSE IF Len(searcher) % 3 # 0
    THEN [err |-> "Uneven search function call", search |-> <<>>]
    ELSE [err |-> NoDBError,
          search |-> [i \in 1..(Len(searcher) \div 3) |->
                         Selector(searcher[3 * i - 2], searcher[3 * i - 1],
                                  searcher[3 * i])]]

\* variant: a nil needle takes a placeholder index too
whereItem_NullCounts(acc, item, offset) ==
    LET whereand == IF acc.strsearch = <<>> THEN "WHERE" ELSE "AND"
    IN IF item.Needle = NULL
       THEN [acc EXCEPT !.strsearch = acc.strsearch \o
                           <<Sp, whereand, Sp, item.Haystack, Sp, item.Operator,
                             Sp, "NULL">>,
                        !.nextidx = acc.nextidx + 1]
       ELSE [strsearch |-> acc.strsearch \o
                           <<Sp, whereand, Sp, item.Haystack, Sp, item.Operator,
                             Sp, Dollar(offset + acc.nextidx)>>,
             searcharr |-> Append(acc.searcharr, item.Needle),
             nextidx |-> acc.nextidx + 1]

\* buildWhere, one pass of the loop over search
whereItem(acc, item, offset) ==
    LET whereand == IF acc.strsearch = <<>> THEN "WHERE" ELSE "AND"
    IN IF item.Needle = NULL
       THEN [acc EXCEPT !.strsearch = acc.strsearch \o
                           <<Sp, whereand, Sp, item.Haystack, Sp, item.Operator,
                             Sp, "NULL">>]
       ELSE [strsearch |-> acc.strsearch \o
                           <<Sp, whereand, Sp, item.Haystack, Sp, item.Operator,
                             Sp, Dollar(offset + acc.nextidx)>>,
             searcharr |-> Append(acc.searcharr, item.Needle),
             nextidx |-> acc.nextidx + 1]

RECURSIVE whereLoop(_, _, _)
whereLoop(acc, search, offset) ==
    IF search = <<>> THEN acc
    ELSE whereLoop(whereItem(acc, Head(search), offset), Tail(search), offset)

buildWhere(offset, search) ==
    LET done == whereLoop([strsearch |-> <<>>, searcharr |-> <<>>, nextidx |-> 1],
                          search, offset)
    IN [strsearch |-> done.strsearch, searcharr |-> done.searcharr]

(* The store.  It splits a statement at white space and accepts           *)
(*   SELECT <columns> FROM stations [WHERE c {AND c}] [LIMIT 1]            *)
(* where c is <column> <operator> <$n or NULL>; a comparison with NULL,    *)
(* of a column or of an operand, is not true for any row.                  *)

Words(str) == SelectSeq(str, LAMBDA piece : piece # Sp)

StationColumns == <<"track", "status">>

SqlOperators == {"=", "!="}

Station(track, status) == [track |-> track, status |-> status]

ZeroStation == Station(NULL, NULL)

FromAt(w) ==
    IF \E i \in 1..Len(w) : w[i] = "FROM"
    THEN CHOOSE i \in 1..Len(w) : w[i] = "FROM" /\ \A j \in 1..(i - 1) : w[j] # "FROM"
    ELSE 0

ColumnList(c) ==
    \/ c = <<"*">>
    \/ /\ Len(c) % 2 = 1
       /\ \A i \in 1..Len(c) :
             IF i % 2 = 1 THEN c[i] \in Range(StationColumns) ELSE c[i] = ","

HasLimit(rest) ==
    Len(rest) >= 2 /\ rest[Len(rest) - 1] = "LIMIT" /\ rest[Len(rest)] = "1"

WherePart(w) ==
    LET rest == SubSeq(w, FromAt(w) + 2, Len(w))
    IN IF HasLimit(rest) THEN SubSeq(rest, 1, Len(rest) - 2) ELSE rest

IsOperand(word, nargs) == word = "NULL" \/ \E n \in 1..nargs : word = Dollar(n)

RECURSIVE WellFormedConds(_, _)
WellFormedConds(c, nargs) ==
    /\ Len(c) >= 3
    /\ c[1] \in Range(StationColumns)
    /\ c[2] \in SqlOperators
    /\ IsOperand(c[3], nargs)
    /\ \/ Len(c) = 3
       \/ /\ Len(c) >= 4
          /\ c[4] = "AND"
          /\ WellFormedConds(SubSeq(c, 5, Len(c)), nargs)

WellFormedWhere(p, nargs) ==
    \/ p = <<>>
    \/ /\ p[1] = "WHERE"
       /\ WellFormedConds(Tail(p), nargs)
       /\ \A n \in 1..nargs : \E i \in 1..Len(p) : p[i] = Dollar(n)

WellFormedSelect(w, nargs) ==
    /\ Len(w) >= 4
    /\ w[1] = "SELECT"
    /\ FromAt(w) >= 3
    /\ ColumnList(SubSeq(w, 2, FromAt(w) - 1))
    /\ Len(w) > FromAt(w)
    /\ w[FromAt(w) + 1] = "stations"
    /\ WellFormedWhere(WherePart(w), nargs)

ParamIndex(word, nargs) == CHOOSE n \in 1..nargs : word = Dollar(n)

\* SQL comparison: not true when either side is NULL
Compare(lhs, op, rhs) ==
    /\ ~lhs.null
    /\ ~rhs.null
    /\ IF op = "=" THEN lhs.v = rhs.v ELSE lhs.v # rhs.v

RowMatches(row, p, args) ==
    \A i \in 1..(Len(p) \div 4) :
        Compare(row[p[4 * i - 2]], p[4 * i - 1],
                IF p[4 * i] = "NULL" THEN NULL
                ELSE args[ParamIndex(p[4 * i], Len(args))])

\* what the driver does besides running the statement: nothing, DB.Query
\* returns an error, rows.Next() returns false because of an error (which
\* rows.Err() holds) after `at` rows, or rows.Scan fails after `at` rows
NoDriverFailure == [fail |-> "none", at |-> 0]

DriverFailures ==
    {NoDriverFailure, [fail |-> "query", at |-> 0]}
        \cup [fail : {"next", "scan"}, at : 0..1]

\* DB.Query and the rows rows.Next() steps over
Query(q, args, rowsOfTable, env) ==
    LET w == Words(q)
        all == SelectSeq(rowsOfTable,
                         LAMBDA row : RowMatches(row, WherePart(w), args))
        limited == IF HasLimit(w) THEN SubSeq(all, 1, Min(1, Len(all))) ELSE all
    IN IF env.fail = "query" \/ ~WellFormedSelect(w, Len(args))
       THEN [err |-> TRUE, rows |-> <<>>, rowsErr |-> FALSE]
       ELSE IF env.fail = "next"
       THEN [err |-> FALSE, rows |-> SubSeq(limited, 1, Min(env.at, Len(limited))),
             rowsErr |-> TRUE]
       ELSE [err |-> FALSE, rows |-> limited, rowsErr |-> FALSE]

\* the columns of the exported and tagged fields of the element type
enumerate(elem) == [err |-> NoDBError, keys |-> StationColumns]

RECURSIVE JoinKeys(_)
JoinKeys(keys) ==
    IF keys = <<>> THEN <<>>
    ELSE IF Len(keys) = 1 THEN keys
    ELSE <<Head(keys), ",">> \o JoinKeys(Tail(keys))

\* a destination d: kind is what reflection finds, slice the collection and
\* item the struct it holds
Destination(kind, slice, item) == [kind |-> kind, slice |-> slice, item |-> item]

NoDestination == Destination("none", <<>>, ZeroStation)

NoQuery == [sent |-> FALSE, q |-> <<>>, args |-> <<>>]

SelectMany(d, table, searcher, handle, rowsOfTable, env) ==
    LET built == buildSearch(searcher)
        kvs == enumerate("Station")
        where == buildWhere(0, built.search)
        q == <<"SELECT", Sp>> \o JoinKeys(kvs.keys) \o <<Sp, "FROM", Sp, table>>
                \o where.strsearch
        rows == Query(q, where.searcharr, rowsOfTable, env)
        sent == [sent |-> TRUE, q |-> q, args |-> where.searcharr]
        failure(msg, query) ==
            [result |-> DBResult(0, msg), d |-> d, query |-> query, panic |-> FALSE]
    IN IF handle = "nil"
       THEN failure("Tried to issue SelectMany() without a DB object", NoQuery)
       ELSE IF d.kind \notin {"ptr-slice", "ptr-interface-slice", "ptr-struct"}
       THEN failure("SelectMany() called with non-pointer interface", NoQuery)
       ELSE IF d.kind = "ptr-struct"
       THEN failure("SelectMany() must be called with pointer-to-slice", NoQuery)
       ELSE IF built.err # NoDBError
       THEN failure(built.err, NoQuery)
       ELSE IF kvs.err # NoDBError
       THEN failure("enumerate() failed during query. This is bad.", NoQuery)
       ELSE IF rows.err
       THEN failure("Select(): SELECT failed on DB.Query", sent)
       ELSE IF env.fail = "scan" /\ env.at < Len(rows.rows)
       THEN failure("Select(): SELECT failed to scan", sent)
       ELSE [result |-> DBResult(Len(rows.rows), NoDBError),
             d |-> [d EXCEPT !.slice = rows.rows],
             query |-> sent,
             panic |-> FALSE]

\* variant: the destination record is assigned even when no row came back
Select_AssignsAlways(d, table, searcher, handle, rowsOfTable, env) ==
    LET retvi == Destination("ptr-interface-slice", <<>>, ZeroStation)
        selectResult == SelectMany(retvi, table, searcher, handle, rowsOfTable, env)
    IN IF d.kind # "ptr-struct"
       THEN [result |-> DBResult(0, "Select() called with non-pointer interface"),
             d |-> d, query |-> NoQuery, panic |-> FALSE]
       ELSE IF selectResult.result.Error # NoDBError
       THEN [selectResult EXCEPT !.d = d]
       ELSE IF Len(selectResult.d.slice) = 0
       THEN [selectResult EXCEPT !.d = [d EXCEPT !.item = ZeroStation],
                                 !.result = DBResult(0, NoDBError)]
       ELSE [selectResult EXCEPT !.d = [d EXCEPT !.item = selectResult.d.slice[1]],
                                 !.result = DBResult(1, NoDBError)]

Select(d, table, searcher, handle, rowsOfTable, env) ==
    LET retvi == Destination("ptr-interface-slice", <<>>, ZeroStation)
        selectResult == SelectMany(retvi, table, searcher, handle, rowsOfTable, env)
    IN IF d.kind # "ptr-struct"
       THEN [result |-> DBResult(0, "Select() called with non-pointer interface"),
             d |-> d, query |-> NoQuery, panic |-> FALSE]
       ELSE IF selectResult.result.Error # NoDBError
       THEN [selectResult EXCEPT !.d = d]
       ELSE IF Len(selectResult.d.slice) = 0
       THEN [selectResult EXCEPT !.d = d, !.result = DBResult(0, NoDBError)]
       ELSE [selectResult EXCEPT !.d = [d EXCEPT !.item = selectResult.d.slice[1]],
                                 !.result = DBResult(1, NoDBError)]

NotFound_item == "Couldn't find the item"

Get(item, table, searcher, handle, rowsOfTable, env) ==
    LET selected == Select(item, table, searcher, handle, rowsOfTable, env)
    IN IF selected.result.Error = NoDBError /\ selected.result.Ok = 0
       THEN [selected EXCEPT !.result = DBResult(0, NotFound_item)]
       ELSE selected

\* DB.Query on a nil handle is a nil pointer dereference
Exists(table, searcher, handle, rowsOfTable, env) ==
    LET built == buildSearch(searcher)
        where == buildWhere(0, built.search)
        q == <<"SELECT", Sp, "*", Sp, "FROM", Sp, table, Sp, "WHERE", Sp>>
                \o where.strsearch \o <<Sp, "LIMIT", Sp, "1">>
        rows == Query(q, where.searcharr, rowsOfTable, env)
        sent == [sent |-> TRUE, q |-> q, args |-> where.searcharr]
        answer(result, query, panic) ==
            [result |-> result, d |-> NoDestination, query |-> query,
             panic |-> panic]
    IN IF built.err # NoDBError
       THEN answer(DBResult(0, "Exists(): failed, unable to build search"),
                   NoQuery, FALSE)
       ELSE IF handle = "nil"
       THEN answer(DBResult(0, NoDBError), NoQuery, TRUE)
       ELSE IF rows.err
       THEN answer(DBResult(0, "Exists(): SELECT failed"), sent, FALSE)
       ELSE IF Len(rows.rows) = 0
       THEN answer(DBResult(0, NoDBError), sent, FALSE)
       ELSE answer(DBResult(1, NoDBError), sent, FALSE)

(* Calls into package db *)

Haystacks == {"status", "region"}

Needles == {NULL, Val("active")}

Selectors ==
    {Selector(h, o, n) : <<h, o, n>> \in Haystacks \X SqlOperators \X Needles}

Searches == UNION {[1..n -> Selectors] : n \in 0..MaxTriples}

\* the searcher arguments of a find call: none, one triple, the two triples
\* of TrackStations.Get, a nil needle, a call with a word missing, and a
\* column the table does not have
Searchers ==
    {<<>>,
     <<"track", "=", Val("7")>>,
     <<"track", "=", Val("7"), "status", "!=", Val("terminated")>>,
     <<"status", "=", NULL>>,
     <<"track", "=", Val("7"), "status">>,
     <<"region", "=", Val("eu")>>}

AllStations == <<Station(Val("7"), Val("active")),
                 Station(Val("7"), Val("terminated")),
                 Station(Val("8"), NULL)>>

RECURSIVE SubSequences(_)
SubSequences(s) ==
    IF s = <<>> THEN {<<>>}
    ELSE LET rest == SubSequences(Tail(s))
         IN rest \cup {<<Head(s)>> \o t : t \in rest}

StationTables == SubSequences(AllStations)

StaleStation == Station(Val("0"), Val("stale"))

SliceDestinations ==
    {Destination(kind, <<StaleStation>>, ZeroStation) :
        kind \in {"ptr-slice", "slice", "ptr-struct"}}

StructDestinations ==
    {Destination(kind, <<>>, StaleStation) : kind \in {"ptr-struct", "struct"}}

NoCall == [fn |-> "none", offset |-> 0, search |-> <<>>, strsearch |-> <<>>,
           searcharr |-> <<>>, table |-> "", searcher |-> <<>>,
           env |-> NoDriverFailure, d |-> NoDestination,
           result |-> DBResult(0, NoDBError), dOut |-> NoDestination,
           query |-> NoQuery, panic |-> FALSE]

Called(fn, d, searcher, env, ret) ==
    [NoCall EXCEPT !.fn = fn, !.table = "stations", !.searcher = searcher,
                   !.env = env, !.d = d, !.result = ret.result, !.dOut = ret.d,
                   !.query = ret.query, !.panic = ret.panic]

CallBuildWhere ==
    /\ mapperCall = NoCall
    /\ \E offset \in 0..MaxOffset, search \in Searches :
          LET where == buildWhere(offset, search)
          IN mapperCall' = [NoCall EXCEPT !.fn = "buildWhere",
                                          !.offset = offset,
                                          !.search = search,
                                          !.strsearch = where.strsearch,
                                          !.searcharr = where.searcharr]
    /\ UNCHANGED <<dispatcherVars, docVars, DB, stations>>

CallSelectMany ==
    /\ mapperCall = NoCall
    /\ \E d \in SliceDestinations, searcher \in Searchers, env \in DriverFailures :
          mapperCall' = Called("SelectMany", d, searcher, env,
                               SelectMany(d, "stations", searcher, DB, stations, env))
    /\ UNCHANGED <<dispatcherVars, docVars, DB, stations>>

CallSelect ==
    /\ mapperCall = NoCall
    /\ \E d \in StructDestinations, searcher \in Searchers, env \in DriverFailures :
          mapperCall' = Called("Select", d, searcher, env,
                               Select(d, "stations", searcher, DB, stations, env))
    /\ UNCHANGED <<dispatcherVars, docVars, DB, stations>>

CallGet ==
    /\ mapperCall = NoCall
    /\ \E d \in StructDestinations, searcher \in Searchers, env \in DriverFailures :
          mapperCall' = Called("Get", d, searcher, env,
                               Get(d, "stations", searcher, DB, stations, env))
    /\ UNCHANGED <<dispatcherVars, docVars, DB, stations>>

CallExists ==
    /\ mapperCall = NoCall
    /\ \E searcher \in Searchers, env \in DriverFailures :
          mapperCall' = Called("Exists", NoDestination, searcher, env,
                               Exists("stations", searcher, DB, stations, env))
    /\ UNCHANGED <<dispatcherVars, docVars, DB, stations>>

\* the call returns to its caller
MapperReturn ==
    /\ mapperCall # NoCall
    /\ mapperCall' = NoCall
    /\ UNCHANGED <<dispatcherVars, docVars, DB, stations>>

\* the dispatcher after registration, with no request in progress
DispatcherIdle ==
    /\ receiverSets = Register(<<>>, InitRegistrations)
    /\ lastAdd = NoAdd
    /\ accessTokens = {AdminToken, UserToken}
    /\ now = 1
    /\ pc = "idle"
    /\ httpRequest = NoHTTPRequest
    /\ input = NoInput
    /\ token = NilToken
    /\ handled = NoHandled
    /\ output = NoOutput
    /\ response = NoResponse

----------------------------------------------------------------------------
(* Package techo, doc.go: the handlers of DocumentFamily and Document.     *)
(* A field of a record is a pointer: NULL, or Val of its string.  Each     *)
(* statement a handler sends to the store is one step of its worker;       *)
(* Sequence, Content and ContentFormat of a document travel as Name does.  *)

Family(id, name) == [ID |-> id, Name |-> name]

DocumentOf(familyID, localID, name) ==
    [FamilyID |-> familyID, LocalID |-> localID, Name |-> name]

\* DocumentFamily.exists: SELECT id FROM document_families WHERE id = $1
familyExists(rows, id) == \E f \in rows : Compare(f.ID, "=", id)

\* Document.exists: SELECT ... WHERE family_id = $1 AND local_id = $2
documentExists(rows, familyID, localID) ==
    \E d \in rows : Compare(d.FamilyID, "=", familyID)
                       /\ Compare(d.LocalID, "=", localID)

\* db.Insert: every field of the record is a column of the INSERT; the key
\* columns are required and unique
InsertFamily(rows, family) ==
    IF family.ID = NULL \/ familyExists(rows, family.ID)
    THEN [failed |-> TRUE, rows |-> rows]
    ELSE [failed |-> FALSE, rows |-> rows \cup {family}]

InsertDocument(rows, document) ==
    IF \/ document.FamilyID = NULL
       \/ document.LocalID = NULL
       \/ documentExists(rows, document.FamilyID, document.LocalID)
    THEN [failed |-> TRUE, rows |-> rows]
    ELSE [failed |-> FALSE, rows |-> rows \cup {document}]

\* db.Update: every field of the record is set in the rows of the triples
UpdateFamily(rows, family) ==
    [failed |-> FALSE,
     rows |-> {IF Compare(f.ID, "=", family.ID) THEN family ELSE f : f \in rows}]

UpdateDocument(rows, document) ==
    [failed |-> FALSE,
     rows |-> {IF Compare(d.FamilyID, "=", document.FamilyID)
                  /\ Compare(d.LocalID, "=", document.LocalID)
               THEN document ELSE d : d \in rows}]

\* the `column` tags of DocumentFamily and Document
ColumnOf(row, column) ==
    CASE column = "id" -> row.ID
      [] column = "family_id" -> row.FamilyID
      [] column = "local_id" -> row.LocalID
      [] column = "name" -> row.Name

\* db.Delete(table, searcher...): the rows of the triples are removed
DeleteRows(rows, searcher) ==
    LET built == buildSearch(searcher)
    IN IF built.err # NoDBError
       THEN [failed |-> TRUE, rows |-> rows]
       ELSE [failed |-> FALSE,
             rows |-> {r \in rows :
                         ~\A i \in 1..Len(built.search) :
                             Compare(ColumnOf(r, built.search[i].Haystack),
                                     built.search[i].Operator,
                                     built.search[i].Needle)}]

\* the searcher DocumentFamily.Delete passes to db.Delete
FamilyDeleteSearcher(family) == <<"id", family.ID>>

\* the searcher Document.Delete passes to db.Delete
DocumentDeleteSearcher(document) ==
    <<"family_id", "=", document.FamilyID, "local_id", "=", document.LocalID>>

\* variant: the IDs of the body are not compared with those of the URL
IDsMatch_Unchecked(resource, args, body) == TRUE

\* Put: the IDs of the JSON body are those of the URL
IDsMatch(resource, args, body) ==
    IF resource = "family" THEN body.ID.v = args[1]
    ELSE body.FamilyID.v = args[1] /\ body.LocalID.v = args[2]

\* "family and local IDs required"
IDsGiven(document) ==
    /\ document.FamilyID # NULL /\ document.FamilyID.v # ""
    /\ document.LocalID # NULL /\ document.LocalID.v # ""

\* what a handler does before its first statement: the next statement, or
\* the code it returns with at once.  Code 0 with pc "panic" is the nil
\* pointer dereference of *family.ID.
Begin(resource, method, args, body) ==
    LET goes(statement) == [pc |-> statement, code |-> 0]
        returns(code) == [pc |-> "done", code |-> code]
    IN IF method = "Get" THEN goes("select")
       ELSE IF method = "Delete" THEN goes("exists")
       ELSE IF resource = "family"
       THEN IF method = "Post" THEN goes("exists")
            ELSE IF body.ID = NULL THEN goes("panic")
            ELSE IF ~IDsMatch(resource, args, body) THEN returns(500)
            ELSE goes("exists")
       ELSE IF ~IDsGiven(body) THEN returns(400)
            ELSE IF method = "Post" THEN goes("exists")
            ELSE IF ~IDsMatch(resource, args, body) THEN returns(500)
            ELSE goes("familyExists")

\* after exists() of the resource itself
AfterExists(resource, method, found) ==
    IF method = "Post"
    THEN IF found THEN [pc |-> "done", code |-> 409]
         ELSE IF resource = "family" THEN [pc |-> "create", code |-> 0]
         ELSE [pc |-> "familyExists", code |-> 0]
    ELSE IF method = "Put"
    THEN [pc |-> IF found THEN "update" ELSE "create", code |-> 0]
    ELSE IF found THEN [pc |-> "delete", code |-> 0]
         ELSE [pc |-> "done", code |-> 404]

\* variant: the document is written whatever the family check found
AfterFamilyExists_Unchecked(method, found) ==
    [pc |-> IF method = "Post" THEN "create" ELSE "exists", code |-> 0]

\* after exists() of the family of a document
AfterFamilyExists(method, found) ==
    IF ~found THEN [pc |-> "done", code |-> 400]
    ELSE [pc |-> IF method = "Post" THEN "create" ELSE "exists", code |-> 0]

\* the status of what a handler returns: nil, or an error without a code
StatusOf(failed) == IF failed THEN 500 ELSE 200

Workers == {"w1", "w2"}

FamilyBodies ==
    {Family(id, name) : <<id, name>> \in {NULL, Val("f1"), Val("f2")}
                                            \X {NULL, Val("n1")}}

DocumentBodies ==
    {DocumentOf(f, l, name) : <<f, l, name>> \in
        {NULL, Val("f1")} \X {Val("d1"), Val("d2")} \X {NULL, Val("n1")}}

\* a request: the resource, the capability, the path arguments, the decoded
\* body (the zero value for Get and Delete)
DocRequest(resource, method, args, body) ==
    [resource |-> resource, method |-> method, args |-> args, body |-> body]

DocRequests ==
    {DocRequest("family", m, <<"f1">>, Family(NULL, NULL)) : m \in {"Get", "Delete"}}
    \cup {DocRequest("family", "Post", <<"">>, b) :
             b \in {x \in FamilyBodies : x.ID # Val("f2")}}
    \cup {DocRequest("family", "Put", <<"f1">>, b) : b \in FamilyBodies}
    \cup {DocRequest("document", m, <<"f1", "d1">>, DocumentOf(NULL, NULL, NULL)) :
             m \in {"Get", "Delete"}}
    \cup {DocRequest("document", "Post", <<"", "">>, b) :
             b \in {x \in DocumentBodies : x.LocalID # Val("d2")}}
    \cup {DocRequest("document", "Put", <<"f1", "d1">>, b) : b \in DocumentBodies}

NoDocRequest == DocRequest("", "", <<>>, Family(NULL, NULL))

NoPut == [resource |-> "", args |-> <<>>, body |-> Family(NULL, NULL),
          updated |-> FALSE]

\* a worker: its request, the statement it sends next, the code and data it
\* returns, what its statements met (INSERTs and UPDATEs sent, an INSERT
\* for a key in the store, the row found by its own exists(), the outcome
\* of the exists() of its family: "none" before it ran, then "found",
\* "missing" or "failed"), whether another worker wrote while it ran, and
\* the body of the PUT its GET follows
IdleWorker == [request |-> NoDocRequest, pc |-> "idle", code |-> 0,
               data |-> Family(NULL, NULL), inserts |-> 0, updates |-> 0,
               insertOnPresent |-> FALSE, checkFound |-> FALSE,
               familyCheck |-> "none",
               interfered |-> FALSE, follows |-> NoPut]

\* the record the handler works on: Delete fills the IDs from the URL
Subject(request) ==
    IF request.method # "Delete" THEN request.body
    ELSE IF request.resource = "family" THEN Family(Val(request.args[1]), NULL)
    ELSE DocumentOf(Val(request.args[1]), Val(request.args[2]), NULL)

Running(w) == w.pc \notin {"idle", "done", "panic"}

\* another worker has written: the workers in progress are no longer alone
Disturb(ws, writer) ==
    [w \in Workers |-> IF w # writer /\ Running(ws[w])
                       THEN [ws[w] EXCEPT !.interfered = TRUE] ELSE ws[w]]

\* the request of w has passed the handler's own checks
DocStart(w) ==
    /\ workers[w].pc = "idle"
    /\ \E r \in DocRequests :
          LET b == Begin(r.resource, r.method, r.args, r.body)
          IN workers' = [workers EXCEPT ![w] =
                            [IdleWorker EXCEPT !.request = r, !.pc = b.pc,
                                               !.code = b.code]]
    /\ UNCHANGED <<dispatcherVars, mapperVars, families, documents, lastPut>>

\* exists() of the record; a failed query is returned as the error
DocExists(w) ==
    LET me == workers[w]
        it == Subject(me.request)
        found == IF me.request.resource = "family"
                 THEN familyExists(families, it.ID)
                 ELSE documentExists(documents, it.FamilyID, it.LocalID)
        next == AfterExists(me.request.resource, me.request.method, found)
    IN /\ me.pc = "exists"
       /\ \/ workers' = [workers EXCEPT ![w].pc = next.pc, ![w].code = next.code,
                                        ![w].checkFound = found]
          \/ workers' = [workers EXCEPT ![w].pc = "done", ![w].code = 500]
       /\ UNCHANGED <<dispatcherVars, mapperVars, families, documents, lastPut>>

\* exists() of the family of the document
DocFamilyExists(w) ==
    LET me == workers[w]
        found == familyExists(families, me.request.body.FamilyID)
        next == AfterFamilyExists(me.request.method, found)
    IN /\ me.pc = "familyExists"
       /\ \/ workers' = [workers EXCEPT ![w].pc = next.pc, ![w].code = next.code,
                                        ![w].familyCheck =
                                            IF found THEN "found" ELSE "missing"]
          \/ workers' = [workers EXCEPT ![w].pc = "done", ![w].code = 500,
                                        ![w].familyCheck = "failed"]
       /\ UNCHANGED <<dispatcherVars, mapperVars, families, documents, lastPut>>

\* what a write of w leaves behind: the other workers are disturbed, and a
\* PUT that ran alone is the last PUT
Written(w, updated) ==
    /\ lastPut' = IF workers[w].request.method = "Put" /\ ~workers[w].interfered
                  THEN [resource |-> workers[w].request.resource,
                        args |-> workers[w].request.args,
                        body |-> workers[w].request.body,
                        updated |-> updated]
                  ELSE NoPut

\* create(): db.Insert
DocCreate(w) ==
    LET me == workers[w]
        family == me.request.resource = "family"
        present == IF family THEN familyExists(families, me.request.body.ID)
                   ELSE documentExists(documents, me.request.body.FamilyID,
                                       me.request.body.LocalID)
        r == IF family THEN InsertFamily(families, me.request.body)
             ELSE InsertDocument(documents, me.request.body)
        sent(failed) == [me EXCEPT !.pc = "done", !.code = StatusOf(failed),
                                   !.inserts = 1, !.insertOnPresent = present]
    IN /\ me.pc = "create"
       /\ \/ /\ ~r.failed
             /\ families' = IF family THEN r.rows ELSE families
             /\ documents' = IF family THEN documents ELSE r.rows
             /\ workers' = [Disturb(workers, w) EXCEPT ![w] = sent(FALSE)]
             /\ Written(w, FALSE)
          \/ /\ workers' = [workers EXCEPT ![w] = sent(TRUE)]
             /\ UNCHANGED <<families, documents, lastPut>>
       /\ UNCHANGED <<dispatcherVars, mapperVars>>

\* update(): db.Update
DocUpdate(w) ==
    LET me == workers[w]
        family == me.request.resource = "family"
        r == IF family THEN UpdateFamily(families, me.request.body)
             ELSE UpdateDocument(documents, me.request.body)
    IN /\ me.pc = "update"
       /\ \/ /\ families' = IF family THEN r.rows ELSE families
             /\ documents' = IF family THEN documents ELSE r.rows
             /\ workers' = [Disturb(workers, w) EXCEPT ![w].pc = "done",
                                                       ![w].code = StatusOf(FALSE),
                                                       ![w].updates = 1]
             /\ Written(w, TRUE)
          \/ /\ workers' = [workers EXCEPT ![w].pc = "done",
                                           ![w].code = StatusOf(TRUE),
                                           ![w].updates = 1]
             /\ UNCHANGED <<families, documents, lastPut>>
       /\ UNCHANGED <<dispatcherVars, mapperVars>>

\* db.Delete
DocDelete(w) ==
    LET me == workers[w]
        family == me.request.resource = "family"
        it == Subject(me.request)
        r == IF family THEN DeleteRows(families, FamilyDeleteSearcher(it))
             ELSE DeleteRows(documents, DocumentDeleteSearcher(it))
    IN /\ me.pc = "delete"
       /\ \/ /\ ~r.failed
             /\ families' = IF family THEN r.rows ELSE families
             /\ documents' = IF family THEN documents ELSE r.rows
             /\ workers' = [Disturb(workers, w) EXCEPT ![w].pc = "done",
                                                       ![w].code = StatusOf(FALSE)]
             /\ Written(w, FALSE)
          \/ /\ workers' = [workers EXCEPT ![w].pc = "done",
                                           ![w].code = StatusOf(TRUE)]
             /\ UNCHANGED <<families, documents, lastPut>>
       /\ UNCHANGED <<dispatcherVars, mapperVars>>

\* Get: the SELECT by the IDs of the URL, and the scan of its first row
DocSelect(w) ==
    LET me == workers[w]
        args == me.request.args
        rows == IF me.request.resource = "family"
                THEN {f \in families : Compare(f.ID, "=", Val(args[1]))}
                ELSE {d \in documents :
                         /\ Compare(d.FamilyID, "=", Val(args[1]))
                         /\ Compare(d.LocalID, "=", Val(args[2]))}
        follows == IF lastPut.resource = me.request.resource /\ lastPut.args = args
                   THEN lastPut ELSE NoPut
    IN /\ me.pc = "select"
       /\ \/ /\ rows = {}
             /\ workers' = [workers EXCEPT ![w].pc = "done", ![w].code = 404,
                                           ![w].follows = follows]
          \/ \E row \in rows :
                workers' = [workers EXCEPT ![w].pc = "done", ![w].code = 200,
                                           ![w].data = row,
                                           ![w].follows = follows]
          \/ workers' = [workers EXCEPT ![w].pc = "done", ![w].code = 500]
       /\ UNCHANGED <<dispatcherVars, mapperVars, families, documents, lastPut>>

\* the handler has returned (or net/http has recovered its panic)
DocReturn(w) ==
    /\ workers[w].pc \in {"done", "panic"}
    /\ workers' = [workers EXCEPT ![w] = IdleWorker]
    /\ UNCHANGED <<dispatcherVars, mapperVars, families, documents, lastPut>>

NoDocuments ==
    /\ families = {}
    /\ documents = {}
    /\ workers = [w \in Workers |-> IdleWorker]
    /\ lastPut = NoPut

----------------------------------------------------------------------------
(* The state machine *)

Init ==
    /\ DispatcherIdle
    /\ DB = "nil"
    /\ stations = <<>>
    /\ mapperCall = NoCall
    /\ NoDocuments

\* net/http hands a request to the ServeHTTP of the receiver set of its prefix
Receive ==
    /\ pc = "idle"
    /\ \E m \in Methods, p \in Paths, b \in Bodies, a \in AuthHeaders, q \in Queries :
          /\ ~MuxRedirects(receiverSets, p)
          /\ httpRequest' = [Method |-> m, Path |-> p,
                             ContentLength |-> b.ContentLength, Body |-> b.Body,
                             Authorization |-> a, Query |-> q, At |-> now]
    /\ pc' = "input"
    /\ UNCHANGED <<receiverSets, lastAdd, accessTokens, now, input, token, handled, output,
                   response>>
    /\ UNCHANGED <<mapperVars, docVars>>

\* ServeHTTP, first step: processInput; on an error it logs and returns
ProcessInput ==
    /\ pc = "input"
    /\ LET r == processInput(httpRequest,
                             ServeMux(receiverSets, httpRequest.Path.segs))
       IN /\ input' = r.input
          /\ \/ r.outcome = "ok" /\ pc' = "purge" /\ response' = response
             \/ /\ r.outcome = "error"
                /\ pc' = "done"
                /\ response' \in {ImplicitResponse, NoResponse}
             \/ r.outcome = "panic" /\ pc' = "done" /\ response' = NoResponse
    /\ UNCHANGED <<receiverSets, lastAdd, accessTokens, now, httpRequest, token, handled,
                   output>>
    /\ UNCHANGED <<mapperVars, docVars>>

\* variant: ServeHTTP goes on to the lookup without purging
PurgeExpiredAccessTokens_Omitted ==
    /\ pc = "purge"
    /\ pc' = "token"
    /\ UNCHANGED <<receiverSets, lastAdd, accessTokens, now, httpRequest, input, token,
                   handled, output, response>>
    /\ UNCHANGED <<mapperVars, docVars>>

\* ServeHTTP, second step
PurgeExpiredAccessTokens ==
    /\ pc = "purge"
    /\ accessTokens' = purgeExpiredAccessTokens(accessTokens, now)
    /\ pc' = "token"
    /\ UNCHANGED <<receiverSets, lastAdd, now, httpRequest, input, token, handled, output,
                   response>>
    /\ UNCHANGED <<mapperVars, docVars>>

\* ServeHTTP, third step
GetRequestAccessToken ==
    /\ pc = "token"
    /\ token' = getRequestAccessToken(httpRequest, accessTokens)
    /\ pc' = "dispatch"
    /\ UNCHANGED <<receiverSets, lastAdd, accessTokens, now, httpRequest, input, handled,
                   output, response>>
    /\ UNCHANGED <<mapperVars, docVars>>

\* ServeHTTP, the rest: find the receiver, handleRequest, processOutput,
\* sendResponse
Dispatch ==
    /\ pc = "dispatch"
    /\ \E h \in HandlerOutcomes, jsonErr \in BOOLEAN :
          LET foundReceiver == FindReceiver(SetReceivers(receiverSets, input.pathPrefix),
                                            input.pathSuffix)
              hr == handleRequest(foundReceiver, input, token, h)
              out == processOutput(input, hr.result, hr.data)
          IN /\ handled' = hr
             /\ output' = out
             /\ response' = sendResponse(input, out, jsonErr)
    /\ pc' = "done"
    /\ UNCHANGED <<receiverSets, lastAdd, accessTokens, now, httpRequest, input, token>>
    /\ UNCHANGED <<mapperVars, docVars>>

\* ServeHTTP returns; the request's values are dropped
Return ==
    /\ pc = "done"
    /\ pc' = "idle"
    /\ httpRequest' = NoHTTPRequest
    /\ input' = NoInput
    /\ token' = NilToken
    /\ handled' = NoHandled
    /\ output' = NoOutput
    /\ response' = NoResponse
    /\ UNCHANGED <<receiverSets, lastAdd, accessTokens, now>>
    /\ UNCHANGED <<mapperVars, docVars>>

\* time passes
Tick ==
    /\ now < MaxTime
    /\ now' = now + 1
    /\ UNCHANGED <<receiverSets, lastAdd, accessTokens, pc, httpRequest, input, token,
                   handled, output, response>>
    /\ UNCHANGED <<mapperVars, docVars>>

Next ==
    \/ Receive
    \/ ProcessInput
    \/ PurgeExpiredAccessTokens
    \/ GetRequestAccessToken
    \/ Dispatch
    \/ Return
    \/ Tick

Spec == Init /\ [][Next]_vars

\* package db on its own: any table, the handle nil or open
MapperInit ==
    /\ DispatcherIdle
    /\ DB \in {"nil", "open"}
    /\ stations \in StationTables
    /\ mapperCall = NoCall
    /\ NoDocuments

MapperNext ==
    \/ CallBuildWhere
    \/ CallSelectMany
    \/ CallSelect
    \/ CallGet
    \/ CallExists
    \/ MapperReturn

MapperSpec == MapperInit /\ [][MapperNext]_vars

\* the document handlers on their own: two workers, empty tables
DocInit ==
    /\ DispatcherIdle
    /\ DB = "open"
    /\ stations = <<>>
    /\ mapperCall = NoCall
    /\ NoDocuments

DocNext ==
    \E w \in Workers :
        \/ DocStart(w)
        \/ DocExists(w)
        \/ DocFamilyExists(w)
        \/ DocCreate(w)
        \/ DocUpdate(w)
        \/ DocDelete(w)
        \/ DocSelect(w)
        \/ DocReturn(w)

DocSpec == DocInit /\ [][DocNext]_vars

\* Registration and routing: the program's init() functions call AddHandler,
\* then main calls StartReceiver, then requests are served.

\* the AddHandler calls a program may make
RouteRegistrations ==
    {[pathPrefix |-> <<"custom">>, pathPattern |-> p, allocator |-> a] :
        <<p, a>> \in {<<PatAny, DocumentFamilies>>, <<PatOptID, DocumentFamily>>,
                      <<PatTrackID, TrackStations>>, <<PatUnnamed, DocumentFamily>>,
                      <<PatBad, TrackStations>>}}
    \cup {[pathPrefix |-> <<"custom", "track-stations">>, pathPattern |-> p,
           allocator |-> a] :
            <<p, a>> \in {<<PatTrackID, TrackStations>>, <<PatBad, TrackStations>>,
                          <<PatAny, DocumentFamilies>>}}

RoutePaths == {PathString(<<"nope">>, TRUE),
               PathString(<<"custom">>, TRUE),
               PathString(<<"custom", "7">>, FALSE),
               PathString(<<"custom", "7", "8">>, TRUE),
               PathString(<<"custom", "track-stations", "7">>, TRUE)}

\* values of the query key "limit"
LimitValues == {<<"5">>, <<"0">>, <<"1", "2">>, <<"-", "5">>, <<"+", "5">>,
                <<"a">>, <<"5", "a">>, <<"-">>, <<>>}

\* query strings: a key given once, and "limit" given twice
RouteQueries ==
    {QueryOf(<<>>, <<v>>, b) : <<v, b>> \in LimitValues \X {<<>>, << <<>> >>}}
    \cup {QueryOf(<<>>, <<>>, b) : b \in {<< <<>> >>, << <<"1">>, <<>> >>}}
    \cup {QueryOf(<< <<>> >>, l, <<>>) :
             l \in {<< <<"a">>, <<"5">> >>, << <<"5">>, <<"a">> >>}}

\* the requests served: GET of every path, and of one path with every query
RouteRequests ==
    {[Method |-> "GET", Path |-> p, ContentLength |-> 0, Body |-> <<>>,
      Authorization |-> NoHeader, Query |-> NoQueryString] : p \in RoutePaths}
    \cup {[Method |-> "GET", Path |-> PathString(<<"custom", "7">>, TRUE),
           ContentLength |-> 0, Body |-> <<>>,
           Authorization |-> NoHeader, Query |-> q] : q \in RouteQueries}

\* what Get does: it fills the instance and returns the zero Result, or it
\* returns 404
RouteOutcomes ==
    {[result |-> ZeroResult, populate |-> TRUE],
     [result |-> Result(404, "handler message"), populate |-> FALSE]}

\* an init() function registers a handler; the error is logged and returned
CallAddHandler ==
    /\ pc = "register"
    /\ lastAdd.n < MaxAdds
    /\ \E r \in RouteRegistrations :
          /\ receiverSets' = AddHandler(receiverSets, r.pathPrefix, r.pathPattern,
                                        r.allocator)
          /\ lastAdd' = [n |-> lastAdd.n + 1, pathPrefix |-> r.pathPrefix,
                         pathPattern |-> r.pathPattern,
                         err |-> ~r.pathPattern.compiles,
                         before |-> receiverSets]
    /\ UNCHANGED <<accessTokens, now, pc, httpRequest, input, token, handled,
                   output, response>>
    /\ UNCHANGED <<mapperVars, docVars>>

\* StartReceiver: every receiver set of the map is handed to the ServeMux
\* and the server listens
StartReceiver ==
    /\ pc = "register"
    /\ pc' = "idle"
    /\ UNCHANGED <<receiverSets, lastAdd, accessTokens, now, httpRequest, input,
                   token, handled, output, response>>
    /\ UNCHANGED <<mapperVars, docVars>>

\* receiverSet.ServeHTTP from the first statement to the last, for one request
ServeHTTP ==
    /\ pc = "idle"
    /\ \E req \in RouteRequests, h \in RouteOutcomes :
          LET r == processInput(req, ServeMux(receiverSets, req.Path.segs))
              purged == purgeExpiredAccessTokens(accessTokens, now)
              accessToken == getRequestAccessToken(req, purged)
              foundReceiver ==
                  FindReceiver(SetReceivers(receiverSets, r.input.pathPrefix),
                               r.input.pathSuffix)
              hr == handleRequest(foundReceiver, r.input, accessToken, h)
              out == processOutput(r.input, hr.result, hr.data)
          IN /\ ~MuxRedirects(receiverSets, req.Path)
             /\ httpRequest' = [Method |-> req.Method, Path |-> req.Path,
                                ContentLength |-> req.ContentLength,
                                Body |-> req.Body,
                                Authorization |-> req.Authorization,
                                Query |-> req.Query, At |-> now]
             /\ input' = r.input
             /\ IF r.outcome = "ok"
                THEN /\ accessTokens' = purged
                     /\ token' = accessToken
                     /\ handled' = hr
                     /\ output' = out
                     /\ response' = sendResponse(r.input, out, FALSE)
                ELSE /\ response' \in {ImplicitResponse, NoResponse}
                     /\ UNCHANGED <<accessTokens, token, handled, output>>
    /\ pc' = "done"
    /\ UNCHANGED <<receiverSets, lastAdd, now>>
    /\ UNCHANGED <<mapperVars, docVars>>

\* no handler registered yet
RouteInit ==
    /\ receiverSets = <<>>
    /\ lastAdd = NoAdd
    /\ accessTokens = {AdminToken, UserToken}
    /\ now = 1
    /\ pc = "register"
    /\ httpRequest = NoHTTPRequest
    /\ input = NoInput
    /\ token = NilToken
    /\ handled = NoHandled
    /\ output = NoOutput
    /\ response = NoResponse
    /\ DB = "nil"
    /\ stations = <<>>
    /\ mapperCall = NoCall
    /\ NoDocuments

RouteNext ==
    \/ CallAddHandler
    \/ StartReceiver
    \/ ServeHTTP
    \/ Return

RouteSpec == RouteInit /\ [][RouteNext]_vars

----------------------------------------------------------------------------
(* Properties *)

\* sendResponse answered the request
Answered == pc = "done" /\ response.by = "sendResponse"

\* the receivers of the set that serves the request
RequestReceivers == SetReceivers(receiverSets, input.pathPrefix)

MatchingIndexes ==
    {i \in 1..Len(RequestReceivers) :
        MatchString(RequestReceivers[i].pathPattern, input.pathSuffix)}

RouteMatched == MatchingIndexes # {}

MatchedReceiver ==
    RequestReceivers[CHOOSE i \in MatchingIndexes : \A j \in MatchingIndexes : i <= j]

CapabilityMethods == {"Get", "Post", "Put", "Delete"}

CapabilityCalls == Range(handled.calls) \cap CapabilityMethods

\* the fixed table of the dispatcher: method -> required capability
RequiredCapability ==
    [GET |-> "Get", HEAD |-> "Get", POST |-> "Post", PUT |-> "Put",
     DELETE |-> "Delete"]

CapabilityAbsent ==
    /\ input.method # "OPTIONS"
    /\ input.method \in DOMAIN RequiredCapability
          => RequiredCapability[input.method] \notin MatchedReceiver.allocator.caps

\* the bodies encoding/json accepts for a resource: an object, or null
Deserializes(data) == data \in {<<"{", "}">>, <<"null">>}

MalformedWrite ==
    /\ input.method \in {"POST", "PUT"}
    /\ Len(input.data) > 0
    /\ ~Deserializes(input.data)

CorsHeaders ==
    /\ response.headers.AllowOrigin = "*"
    /\ response.headers.AllowMethods = "*"
    /\ response.headers.AllowHeaders = "*"
    /\ response.headers.MaxAge = "300"

\* the response body is one JSON document and the line end
CarriesDocument == Len(response.body) = 2 /\ response.body[2] = Newline

\* the response body is the line end alone
CarriesNoDocument == response.body = <<Newline>>

\* C1 as stated: on a matched route, a resource without the capability of the
\* method (or a method outside the table) is answered 405 without any
\* capability call, whatever the request body is.
C1_AbsentCapabilityAlways405 ==
    Answered /\ RouteMatched /\ CapabilityAbsent
        => response.code = 405 /\ CapabilityCalls = {}

\* C1 amended: on a matched route, a resource without the capability of the
\* method (or a method outside the table) is never called; the status is 405,
\* except that a POST or PUT with a non-empty body that does not deserialize
\* is answered 400, because the body is decoded before the capability is
\* looked up.
C1_AbsentCapability ==
    Answered /\ RouteMatched /\ CapabilityAbsent
        => /\ CapabilityCalls = {}
           /\ response.code = IF MalformedWrite THEN 400 ELSE 405

C1_Witness ==
    /\ Answered /\ RouteMatched /\ CapabilityAbsent
    /\ input.method = "POST"
    /\ input.data = <<"{", "}">>
    /\ MatchedReceiver.allocator.caps = {"Get"}
    /\ response.code = 405

\* C2 as stated: when no pattern of the selected prefix matches, the response
\* is 404 carrying the message "endpoint not found" for every method, and
\* neither the allocator nor a capability method runs.
C2_UnmatchedAlwaysCarriesMessage ==
    Answered /\ ~RouteMatched
        => /\ response.code = 404
           /\ CarriesDocument
           /\ response.body[1].doc.result.Message = "endpoint not found"
           /\ handled.calls = <<>>

\* C2 amended: when no pattern of the selected prefix matches, the status is
\* 404 for every method and neither the allocator nor a capability method
\* runs; the body is the Result with message "endpoint not found", except for
\* HEAD and OPTIONS, whose body is stripped.
C2_Unmatched ==
    Answered /\ ~RouteMatched
        => /\ response.code = 404
           /\ handled.calls = <<>>
           /\ IF input.method \in {"HEAD", "OPTIONS"}
              THEN CarriesNoDocument
              ELSE /\ CarriesDocument
                   /\ response.body[1].doc.kind = "result"
                   /\ response.body[1].doc.result.Code = 404
                   /\ response.body[1].doc.result.Message = "endpoint not found"

C2_Witness ==
    /\ Answered /\ ~RouteMatched
    /\ input.pathPrefix = <<"document-family">>
    /\ input.method = "DELETE"
    /\ response.code = 404

\* C3: a POST or PUT on a matched route whose body does not deserialize is
\* answered 400 and neither Post nor Put is called.
C3_MalformedBody ==
    Answered /\ RouteMatched /\ MalformedWrite
        => /\ response.code = 400
           /\ CapabilityCalls = {}

C3_Witness ==
    /\ Answered /\ RouteMatched /\ MalformedWrite
    /\ input.method = "PUT"
    /\ "Put" \in MatchedReceiver.allocator.caps
    /\ response.code = 400

\* C4 as stated: OPTIONS on any path under a registered prefix is answered
\* with a 2xx status, no document in the body and the CORS headers, without a
\* capability call.
C4_OptionsAlways2xx ==
    Answered /\ input.method = "OPTIONS" /\ input.pathPrefix # DefaultPrefix
        => /\ response.code >= 200 /\ response.code <= 299
           /\ output.data = NilPayload
           /\ CorsHeaders
           /\ CapabilityCalls = {}

\* C4 amended: OPTIONS on a path whose suffix matches a registration is
\* answered 200, and on any other path 404; in both cases the body carries no
\* document (only the line end written after every body), the four CORS
\* headers are set and no capability method is called.
C4_Options ==
    Answered /\ input.method = "OPTIONS"
        => /\ response.code = IF RouteMatched THEN 200 ELSE 404
           /\ CarriesNoDocument
           /\ response.headers.ContentType = ""
           /\ CorsHeaders
           /\ CapabilityCalls = {}

C4_Witness ==
    /\ Answered /\ input.method = "OPTIONS" /\ RouteMatched
    /\ input.pathPrefix = <<"document-family">>
    /\ response.code = 200

\* the bearer key of the request, when the header is a well-formed two-field
\* bearer credential
WellFormedBearer ==
    /\ httpRequest.Authorization.present
    /\ Len(Fields(httpRequest.Authorization.value)) = 2
    /\ ToLower(Fields(httpRequest.Authorization.value)[1]) = "bearer"

BadCredential ==
    \/ ~WellFormedBearer
    \/ loadAccessTokenByKey(accessTokens, Fields(httpRequest.Authorization.value)[2])
           = NilToken

\* the statuses the dispatcher itself produces when no capability method runs
DispatcherCodes == {200, 400, 404, 405}

\* C5: a request without Authorization header, with a header that is not a
\* two-field bearer credential, or with a key the store does not return, is
\* dispatched with the guest identity: the capability method receives the
\* guest token, as it does without the header, and the dispatcher itself
\* answers only with its routing statuses, never with a rejection.
C5_GuestFallback ==
    (pc = "dispatch" \/ Answered) /\ BadCredential
        => /\ token = makeGuestAccessToken
           /\ Answered /\ RouteMatched
                 => handled.request.AccessToken = makeGuestAccessToken
           /\ Answered /\ CapabilityCalls = {} => response.code \in DispatcherCodes

C5_Witness ==
    /\ Answered /\ BadCredential
    /\ Fields(httpRequest.Authorization.value) = <<"BEARER", "user-key">>
    /\ "Get" \in CapabilityCalls
    /\ handled.request.AccessToken = makeGuestAccessToken

GenericFailure == message("internal server error")

\* C6 as stated: when the handler's Result carries an error, the status is
\* 500 and the body is the fixed generic failure message, for every method
\* and code.
C6_ErrorAlwaysGenericBody ==
    Answered /\ handled.result.Error
        => /\ response.code = 500
           /\ CarriesDocument
           /\ response.body[1].doc = GenericFailure

\* C6 amended: when the handler's Result carries an error, the status is 500
\* for every method and code, and the Result's code and message and the
\* handler's data are not in the response: the body is the fixed generic
\* failure message, except for HEAD, whose body is stripped.
C6_ErrorIs500 ==
    Answered /\ handled.result.Error
        => /\ response.code = 500
           /\ IF input.method = "HEAD"
              THEN CarriesNoDocument
              ELSE CarriesDocument /\ response.body[1].doc = GenericFailure

C6_Witness ==
    /\ Answered /\ handled.result.Error
    /\ handled.result.Code = 404
    /\ input.method = "GET"
    /\ handled.data.populated
    /\ response.code = 500

\* C7: a response with status 204 carries no body bytes, whatever data the
\* handler returned and whatever the method is.
C7_NoContentNoBody ==
    response.code = 204 => response.body = <<>>

C7_Witness ==
    /\ Answered
    /\ response.code = 204
    /\ input.method = "GET"
    /\ handled.data.populated

\* C8 as stated: every response with a final status in 400..499 has the
\* structured Result as its body.
C8_ClientErrorAlwaysResultBody ==
    Answered /\ response.code >= 400 /\ response.code <= 499
        => /\ CarriesDocument
           /\ response.body[1].doc.kind = "result"

\* C8 amended: a response with a final status in 400..499 never carries the
\* handler's resource data, even when the capability method populated the
\* instance: its body is the structured Result, except for HEAD and OPTIONS,
\* whose body is stripped.
C8_ClientErrorHidesData ==
    Answered /\ response.code >= 400 /\ response.code <= 499
        => IF input.method \in {"HEAD", "OPTIONS"}
           THEN CarriesNoDocument
           ELSE /\ CarriesDocument
                /\ response.body[1].doc = ResultPayload(handled.result)

C8_Witness ==
    /\ Answered
    /\ response.code = 404
    /\ input.method = "POST"
    /\ "Post" \in CapabilityCalls
    /\ handled.data.populated

\* fewer body bytes arrived than Content-Length declared
ShortRead ==
    /\ httpRequest.ContentLength > 0
    /\ Len(httpRequest.Body) < httpRequest.ContentLength

\* C9: when fewer body bytes arrive than Content-Length declares, ServeHTTP
\* stops before the allocator and any capability method run and nothing is
\* deserialized; a body that is deserialized was read in full.
C9_ShortReadAborts ==
    /\ ShortRead
          => /\ pc \in {"input", "done"}
             /\ handled = NoHandled
             /\ response.by # "sendResponse"
    /\ "Unmarshal" \in Range(handled.calls)
          => /\ input.data = httpRequest.Body
             /\ Len(input.data) = httpRequest.ContentLength

C9_Witness ==
    /\ pc = "done"
    /\ ShortRead
    /\ httpRequest.Method = "PUT"
    /\ Len(input.data) > 0
    /\ input.pathPrefix = <<"document-family">>

\* C10: every response to an inbound request, on every path through the
\* dispatcher, the input read failure included, carries the four CORS
\* headers.
C10_CorsOnEveryResponse ==
    response.by # "none" => CorsHeaders

\* C11: the ETag header is the digest of exactly the bytes written as the
\* response body, on every response that has a body; hence the pretty-printed
\* and the compact response of the same data carry different ETags.
C11_ETagOfWrittenBody ==
    Answered /\ response.body # <<>>
        => /\ response.headers.ETag = Sha256Hex(response.body)
           /\ \A p \in BOOLEAN :
                 p # input.pretty /\ CarriesDocument
                    => Sha256Hex(WriteBody(response.code, Marshal(output.data, p)))
                          # response.headers.ETag

SuccessWithBody ==
    /\ response.code >= 200 /\ response.code <= 299 /\ response.code # 204
    /\ ~StripsBody(input.method)

\* C17: when the final status is in 200..299 and not 204, and the method is
\* neither HEAD nor OPTIONS, the response body is the handler's resource data
\* when the dispatcher captured it (GET and POST) and the Result otherwise
\* (PUT and DELETE); the Result is never sent with or in place of captured
\* data on 2xx.
C17_SuccessBody ==
    Answered /\ SuccessWithBody
        => /\ CarriesDocument
           /\ input.method \in {"GET", "POST", "PUT", "DELETE"}
           /\ handled.data # NilItem <=> input.method \in {"GET", "POST"}
           /\ response.body[1].doc =
                 IF input.method \in {"GET", "POST"}
                 THEN ItemPayload(handled.data)
                 ELSE ResultPayload(handled.result)

C17_Witness ==
    /\ Answered /\ SuccessWithBody
    /\ input.method = "POST"
    /\ response.code = 201
    /\ handled.data.populated
    /\ response.body[1].doc = ItemPayload(handled.data)

\* C18: the Location header is emitted exactly when the final status is 201
\* or in 300..399 and the Result's location is not empty, and then it equals
\* that location; with any other final status (200, 4xx, the forced 500)
\* there is no Location header even if the handler set a location.
C18_LocationOnlyOnCreatedOrRedirect ==
    Answered
        => /\ response.headers.Location # ""
                <=> /\ response.code = 201
                       \/ (response.code >= 300 /\ response.code <= 399)
                    /\ handled.result.Location # ""
           /\ response.headers.Location # ""
                => response.headers.Location = handled.result.Location

\* what GET does with the request of this HEAD when Get returns the same
\* Result: the callbacks that run, and the response
GetRuns ==
    LET getInput == [input EXCEPT !.method = "GET"]
        run(h, jsonErr) ==
            LET hr == handleRequest(MatchedReceiver, getInput, token, h)
            IN [calls |-> hr.calls,
                response |-> sendResponse(getInput,
                                          processOutput(getInput, hr.result, hr.data),
                                          jsonErr)]
    IN {run(x[1], x[2]) :
           x \in {y \in HandlerOutcomes \X BOOLEAN :
                     CapabilityCalls # {} => y[1].result = handled.result}}

\* C19: HEAD on a matched route calls the read capability exactly as GET
\* does and, for the same arguments and store state, produces the status
\* code GET produces; its body is stripped whatever the status is.
C19_HeadAsGet ==
    Answered /\ RouteMatched /\ input.method = "HEAD"
        => /\ response.body \in {<<>>, <<Newline>>}
           /\ \A r \in GetRuns :
                 /\ r.calls = handled.calls
                 /\ r.response.code = response.code

\* the purge has removed what was expired when the request arrived
PurgedForRequest ==
    /\ \A e \in accessTokens : ~IsExpired(e, httpRequest.At)
    /\ ~IsExpired(token, httpRequest.At)

\* C20 as stated: every inbound request purges the expired tokens, and the
\* purge comes before the identity lookup and before any capability method,
\* so that a token expired when the request starts is never its identity.
C20_EveryRequestPurges ==
    /\ pc \in {"token", "dispatch", "done"} => PurgedForRequest
    /\ handled.calls # <<>> => pc = "done"

\* C20 amended: every inbound request whose body was read without error
\* purges the expired tokens (a request that is aborted while its body is
\* read returns before the purge), and the purge comes before the identity
\* lookup and before any capability method, so that a token expired when the
\* request starts is never its identity.
C20_PurgeBeforeLookup ==
    /\ pc \in {"token", "dispatch"} \/ Answered => PurgedForRequest
    /\ handled.calls # <<>> => Answered

C20_Witness ==
    /\ Answered
    /\ IsExpired(UserToken, httpRequest.At)
    /\ httpRequest.Authorization = Header(<<"BEARER", " ", " ", "user-key">>)
    /\ token = makeGuestAccessToken
    /\ UserToken \notin accessTokens
    /\ handled.calls # <<>>

\* the number of the first i triples whose needle is not nil
NonNullUpTo(search, i) == Cardinality({j \in 1..i : search[j].Needle # NULL})

WhereExample == <<Selector("status", "=", Val("active")),
                  Selector("region", "!=", NULL)>>

\* C12: the WHERE builder emits the conditions in the order of the triples,
\* the first after WHERE and the others after AND; the k-th triple with a
\* non-null value uses the placeholder $(offset+k) and gives the k-th bound
\* parameter; a triple with a null value emits the literal NULL and takes
\* neither a placeholder number nor a parameter; the triples
\* (status, =, active), (region, !=, NULL) with offset 0 give
\* WHERE status = $1 AND region != NULL and the one parameter "active".
C12_BuildWhere ==
    mapperCall.fn = "buildWhere"
        => LET search == mapperCall.search
               w == Words(mapperCall.strsearch)
               args == mapperCall.searcharr
           IN /\ Len(w) = 4 * Len(search)
              /\ Len(args) = NonNullUpTo(search, Len(search))
              /\ \A i \in 1..Len(search) :
                    /\ w[4 * i - 3] = IF i = 1 THEN "WHERE" ELSE "AND"
                    /\ w[4 * i - 2] = search[i].Haystack
                    /\ w[4 * i - 1] = search[i].Operator
                    /\ IF search[i].Needle = NULL
                       THEN w[4 * i] = "NULL"
                       ELSE /\ w[4 * i] = Dollar(mapperCall.offset
                                                     + NonNullUpTo(search, i))
                            /\ args[NonNullUpTo(search, i)] = search[i].Needle
              /\ search = WhereExample /\ mapperCall.offset = 0
                    => /\ w = <<"WHERE", "status", "=", "$1",
                                "AND", "region", "!=", "NULL">>
                       /\ args = <<Val("active")>>

C12_Witness ==
    /\ mapperCall.fn = "buildWhere"
    /\ mapperCall.search = WhereExample
    /\ mapperCall.offset = 0
    /\ Words(mapperCall.strsearch) = <<"WHERE", "status", "=", "$1",
                                       "AND", "region", "!=", "NULL">>
    /\ mapperCall.searcharr = <<Val("active")>>

\* the triples of the call are complete and name columns of the table
SearchAccepted ==
    /\ Len(mapperCall.searcher) % 3 = 0
    /\ \A i \in 1..Len(mapperCall.searcher) :
          i % 3 = 1 => mapperCall.searcher[i] \in Range(StationColumns)

\* the rows of the table that satisfy every triple of the call
SatisfyingRows ==
    LET search == buildSearch(mapperCall.searcher).search
    IN SelectSeq(stations,
                 LAMBDA row : \A i \in 1..Len(search) :
                     Compare(row[search[i].Haystack], search[i].Operator,
                             search[i].Needle))

\* the query of the call fails: at DB.Query, or while its rows are fetched
QueryFailed == mapperCall.env.fail \in {"query", "next"}

\* C13: when no row matches, SelectMany returns no error and sets the
\* destination to an empty collection, Select returns no error with Ok = 0
\* (success is Ok = 1, failure an error), and Get returns its not-found
\* error; when the query fails, all three return the failure and never the
\* not-found signal.
C13_ZeroRowsAndFailure ==
    /\ mapperCall.fn \in {"SelectMany", "Select", "Get"}
    /\ DB = "open"
    /\ SearchAccepted
    /\ mapperCall.d.kind = IF mapperCall.fn = "SelectMany" THEN "ptr-slice"
                           ELSE "ptr-struct"
    => /\ mapperCall.env.fail = "none" /\ SatisfyingRows = <<>>
             => /\ mapperCall.fn = "SelectMany"
                      => /\ mapperCall.result = DBResult(0, NoDBError)
                         /\ mapperCall.dOut.slice = <<>>
                /\ mapperCall.fn = "Select"
                      => mapperCall.result = DBResult(0, NoDBError)
                /\ mapperCall.fn = "Get"
                      => mapperCall.result.Error = NotFound_item
       /\ mapperCall.env.fail = "none" /\ SatisfyingRows # <<>>
             /\ mapperCall.fn = "Select"
             => mapperCall.result = DBResult(1, NoDBError)
       /\ QueryFailed
             => mapperCall.result.Error \notin {NoDBError, NotFound_item}

\* C14: Exists returns found (Ok = 1, no error) exactly when a row satisfies
\* all the triples, the empty sequence included; the statement it sends is
\* a well-formed SELECT with one WHERE clause; a query failure is returned
\* as an error with found = false.
C14_Exists ==
    mapperCall.fn = "Exists" /\ DB = "open" /\ SearchAccepted
        => /\ mapperCall.query.sent
           /\ WellFormedSelect(Words(mapperCall.query.q),
                               Len(mapperCall.query.args))
           /\ Cardinality({i \in 1..Len(mapperCall.query.q) :
                              mapperCall.query.q[i] = "WHERE"}) = 1
           /\ mapperCall.env.fail = "none"
                 => (mapperCall.result = DBResult(1, NoDBError)
                        <=> SatisfyingRows # <<>>)
           /\ mapperCall.env.fail = "query"
                 => mapperCall.result.Ok = 0 /\ mapperCall.result.Error # NoDBError

\* C15: a POST of a document family or document whose key is in the store
\* is answered 409 without an INSERT, in every interleaving of concurrent
\* creates of the same key: no INSERT is sent for a key that is in the
\* store when the INSERT is sent.
C15_NoInsertOnExistingKey ==
    \A w \in Workers :
        workers[w].request.method = "Post"
            => /\ ~workers[w].insertOnPresent
               /\ workers[w].pc = "done" /\ workers[w].checkFound
                     => workers[w].code = 409 /\ workers[w].inserts = 0

\* C16: a successful PUT of a body under the URL of a document or document
\* family, followed with no write in between by a GET of the same URL,
\* returns data equal field for field to the body, whether the PUT created
\* the row or updated it.
C16_PutThenGet ==
    \A w \in Workers :
        /\ workers[w].pc = "done"
        /\ workers[w].request.method = "Get"
        /\ workers[w].follows # NoPut
        => /\ workers[w].code = 200
           /\ workers[w].data = workers[w].follows.body

C16_Witness ==
    \E w \in Workers :
        /\ workers[w].pc = "done"
        /\ workers[w].request = DocRequest("document", "Get", <<"f1", "d1">>,
                                           DocumentOf(NULL, NULL, NULL))
        /\ workers[w].follows # NoPut
        /\ workers[w].follows.updated
        /\ workers[w].code = 200
        /\ workers[w].data = DocumentOf(Val("f1"), Val("d1"), NULL)

\* the searcher the Delete of a worker's request passes to db.Delete
DeleteSearcherOf(request) ==
    IF request.resource = "family"
    THEN FamilyDeleteSearcher(Subject(request))
    ELSE DocumentDeleteSearcher(Subject(request))

\* a worker whose Delete found its row and sends the DELETE next
DeleteReached(w) ==
    workers[w].pc = "delete" /\ workers[w].request.method = "Delete"

\* C28 as stated: the DELETE of an existing document family or document is
\* sent with a selector of complete (column, operator, value) triples, so
\* buildSearch accepts it and the statement never fails with "Uneven search
\* function call".
C28_DeleteSelectorWhole ==
    \A w \in Workers :
        DeleteReached(w) =>
            /\ Len(DeleteSearcherOf(workers[w].request)) % 3 = 0
            /\ buildSearch(DeleteSearcherOf(workers[w].request)).err
                  # "Uneven search function call"

\* a worker serving POST or PUT of a document
WritesDocument(w) ==
    /\ workers[w].request.resource = "document"
    /\ workers[w].request.method \in {"Post", "Put"}

\* the family the document of the request names is not in the store
FamilyAbsent(w) ==
    ~familyExists(families, workers[w].request.body.FamilyID)

\* the request has passed the checks a handler makes before its first
\* statement: both IDs given, and for PUT equal to those of the URL
PassedOwnChecks(w) ==
    /\ IDsGiven(workers[w].request.body)
    /\ workers[w].request.method = "Put"
          => IDsMatch("document", workers[w].request.args, workers[w].request.body)

MapperReads == {"SelectMany", "Select", "Get", "Exists"}

\* the destination of the call is not what the operation takes: find-many a
\* reference to a collection, find-one and get a reference to a record
WrongShape ==
    \/ mapperCall.fn = "SelectMany" /\ mapperCall.d.kind # "ptr-slice"
    \/ mapperCall.fn \in {"Select", "Get"} /\ mapperCall.d.kind # "ptr-struct"

\* the selector list of the call is not whole triples
UnevenSelector == Len(mapperCall.searcher) % 3 # 0

\* the call returned an error to its caller and sent nothing to the store
RefusedAsValue ==
    /\ ~mapperCall.panic
    /\ mapperCall.result.Error # NoDBError
    /\ ~mapperCall.query.sent

\* C23 as stated: every read operation called with a destination of the
\* wrong shape or with a selector list that is not whole triples returns an
\* error and sends no query, and every read operation called while the
\* handle is nil returns an error as a value and does not crash.
C23_RefusedWithoutQuery ==
    mapperCall.fn \in MapperReads =>
        /\ (WrongShape \/ UnevenSelector) => RefusedAsValue
        /\ DB = "nil" => RefusedAsValue

\* the rows the query of the call returned to rows.Next(), in row order
ReturnedRows ==
    IF mapperCall.env.fail = "next"
    THEN SubSeq(SatisfyingRows, 1, Min(mapperCall.env.at, Len(SatisfyingRows)))
    ELSE SatisfyingRows

MarshalFailed == response.code # output.code

\* C26: every status sent is in 100..499 or is 500.  The Result code
\* processOutput maps is the handler's, or 500 when the Result carries an
\* error: code 0 is sent as 200, a code in 100..499 as it is and every other
\* code as 500; a response that cannot be serialized is sent as 500.
C26_StatusRange ==
    /\ response.by # "none" => response.code \in (100..499) \cup {500}
    /\ Answered =>
          IF MarshalFailed
          THEN response.code = 500 /\ output.data.kind = "item"
          ELSE response.code =
                  IF handled.result.Error THEN 500
                  ELSE IF handled.result.Code = 0 THEN 200
                  ELSE IF handled.result.Code \in 100..499
                  THEN handled.result.Code
                  ELSE 500

\* a capability method returned a negative code without an error and the
\* client was sent 500
C26_Witness ==
    /\ Answered
    /\ CapabilityCalls # {}
    /\ handled.result.Code = -1
    /\ ~handled.result.Error
    /\ response.code = 500
    /\ output.code = 500

\* the receivers registered for prefixes other than the one serving the
\* request
OtherPrefixReceivers ==
    UNION {Range(receiverSets[p]) :
              p \in {q \in DOMAIN receiverSets : SitePrefix \o q # input.pathPrefix}}

\* C21: the request is dispatched to the first receiver, in the order of
\* registration, of its prefix whose pattern matches the path suffix; a
\* later receiver is used only when every earlier one of the prefix fails to
\* match, no receiver at all when none matches, and the receivers of other
\* prefixes are not consulted even when their patterns match.
C21_FirstMatchInOrder ==
    Answered =>
        /\ RouteMatched =>
              \E i \in MatchingIndexes :
                  /\ handled.receiver = RequestReceivers[i]
                  /\ \A j \in 1..(i - 1) :
                        ~MatchString(RequestReceivers[j].pathPattern,
                                     input.pathSuffix)
        /\ ~RouteMatched =>
              /\ handled.receiver = NoReceiver
              /\ handled.calls = <<>>
              /\ response.code = 404

\* a request was dispatched to the second registration of its prefix, the
\* first not matching, while a third registration of the prefix and one of
\* another prefix match as well
C21_Witness ==
    /\ Answered
    /\ Len(RequestReceivers) = 3
    /\ MatchingIndexes = {2, 3}
    /\ RequestReceivers[2] # RequestReceivers[3]
    /\ handled.receiver = RequestReceivers[2]
    /\ handled.data.type = RequestReceivers[2].allocator.type
    /\ \E r \in OtherPrefixReceivers :
          /\ MatchString(r.pathPattern, input.pathSuffix)
          /\ r # handled.receiver

\* the set that would serve a path, and the receiver it would dispatch to,
\* for a given map of receiver sets
RoutedTo(sets, path) ==
    LET prefix == ServeMux(sets, path.segs)
        suffixSegs == SubSeq(path.segs, Len(prefix) + 1, Len(path.segs))
    IN [prefix |-> prefix,
        receiver |-> FindReceiver(SetReceivers(sets, prefix),
                                  PathString(suffixSegs, suffixSegs # <<>>))]

\* C27 as stated: after an AddHandler call that failed to compile its
\* pattern, the map of receiver sets is what it was before the call (no set
\* created, no receiver added), and every path is routed to the receiver it
\* was routed to before.
C27_FailedAddLeavesTable ==
    lastAdd.err =>
        /\ receiverSets = lastAdd.before
        /\ DOMAIN receiverSets = DOMAIN lastAdd.before
        /\ \A p \in RoutePaths :
              RoutedTo(receiverSets, p).receiver
                  = RoutedTo(lastAdd.before, p).receiver

\* the capture groups of the matched pattern that have a name
NamedGroups ==
    {i \in 1..Len(handled.receiver.pathPattern.names) :
        handled.receiver.pathPattern.names[i] # ""}

\* the groups of the matched pattern took part in the match: each captured
\* its segment of the suffix
GroupsParticipated ==
    Len(input.pathSuffix.segs) = Len(handled.receiver.pathPattern.names)

\* C29: on a matched route the path arguments hold exactly one entry per
\* named capture group of the matched pattern and none for an unnamed group;
\* the value is the segment the group captured, and the empty string for a
\* group that did not take part in the match (the entry exists all the same).
C29_PathArgsPerNamedGroup ==
    (Answered /\ handled.receiver # NoReceiver) =>
        LET names == handled.receiver.pathPattern.names
            args == handled.request.PathArgs
        IN /\ {a[1] : a \in args} = {names[i] : i \in NamedGroups}
           /\ Cardinality(args) = Cardinality(NamedGroups)
           /\ \A i \in NamedGroups :
                 <<names[i], IF GroupsParticipated THEN input.pathSuffix.segs[i]
                             ELSE "">> \in args

\* the optional group of the matched pattern is absent from the path and
\* its argument is there, empty
C29_Witness ==
    /\ Answered
    /\ handled.receiver.pathPattern = PatOptID
    /\ input.pathSuffix.segs = <<>>
    /\ handled.request.PathArgs = {<<"id", "">>}
    /\ "Get" \in Range(handled.calls)

\* handleRequest built the Request of the served request
RequestBuilt == Answered /\ handled.receiver # NoReceiver

\* C22 as stated: after input normalization list-limit is unset (the zero
\* value) or a non-negative integer whatever the query parameter "limit"
\* holds; a value that does not parse as an integer leaves it unset, only
\* the first value of a repeated key counts, and list-brief is true exactly
\* when the key "brief" is in the query string.
C22_LimitNonNegative ==
    RequestBuilt =>
        LET limits == QueryValues(httpRequest.Query, "limit")
        IN /\ handled.request.ListLimit >= 0
           /\ (limits # <<>> /\ Atoi(limits[1]).err)
                 => handled.request.ListLimit = 0
           /\ (limits # <<>> /\ ~Atoi(limits[1]).err /\ Atoi(limits[1]).i >= 0)
                 => handled.request.ListLimit = Atoi(limits[1]).i
           /\ limits = <<>> => handled.request.ListLimit = 0
           /\ handled.request.ListBrief
                 <=> "brief" \in DOMAIN httpRequest.Query

====
